---------------------------- MODULE Spec2Model ----------------------------
(***************************************************************************)
(* A model of the storage core of exonum-merkledb: the ProofPath bit       *)
(* range, the BranchNode record, the Merkle Patricia ProofMapIndex, the     *)
(* View / Fork / Snapshot layer, the database merge and the index metadata  *)
(* registry.                                                                *)
(*                                                                          *)
(* Bytes are integers 0..255.  A Rust slice index j is the TLA+ sequence    *)
(* index j + 1.  Option<T> is a sequence of length at most one: << >> is    *)
(* None and <<x>> is Some(x).  A hash is a term <<"hash", input>>: the hash *)
(* function is taken to be injective (collision free), and Hash::zero is a  *)
(* term no input hashes to.                                                  *)
(***************************************************************************)
EXTENDS Integers, Sequences, FiniteSets, TLC

(***************************************************************************)
(* Bounds of the model.                                                     *)
(***************************************************************************)
\* Number of key bytes (the program uses 32; the bit arithmetic is the same).
KeyBytes == 2
\* Largest number of entries a ProofMap holds in the model.
MaxEntries == 3
\* Largest number of ProofMap operations in one behaviour.
MaxMapOps == 4
\* Largest numbers of Snapshots taken, of Forks alive, of changes recorded in
\* Forks and of merges in one behaviour of the database.
MaxSnapshots == 2
MaxForks == 2
MaxDbOps == 2
MaxMerges == 2
\* Largest number of operations on the Fork of SpecFork, and of savepoints.
MaxForkOps == 5
MaxSavepoints == 2
\* Largest number of opens and merges in one behaviour of SpecMeta.
MaxMetaOps == 4
\* Largest number of operations before proofs are requested.
MaxProofOps == 4
\* The length of the longest list of keys requested of a multiproof.
MaxProofKeys == 3
\* The length of the longest list of keys of a multiproof verified against
\* hashes that are not the root hash.
MaxMismatchKeys == 2
\* Largest number of operations on the two ProofPaths.
MaxPathOps == 5
\* Largest number of writes and merges in one behaviour of SpecFamily.
MaxFamilyOps == 4
\* Number of bytes of a hash in the byte image of a BranchNode (the program
\* uses 32), and largest number of operations on the image.
HashBytes == 2
MaxNodeOps == 3
\* The limits of the NetworkConfiguration of the model, and the largest
\* numbers of network requests and of incoming connections and messages in
\* one behaviour of SpecNet.
MaxOutgoing == 1
MaxIncoming == 1
MaxRequests == 3
MaxArrivals == 2
\* Largest number of conversions of an IndexType in one behaviour, and the
\* length of the longest buffer given to from_bytes.
MaxTypeOps == 6
MaxTypeBuffer == 2
\* Largest number of messages given to NoiseCodec::encode in one behaviour,
\* and the number of bytes of the tag the session adds to a chunk.
MaxFrames == 2
TagBytes == 1

(***************************************************************************)
(* Bytes                                                                    *)
(***************************************************************************)
Pow2(n) == IF n = 0 THEN 1 ELSE IF n = 1 THEN 2 ELSE IF n = 2 THEN 4
           ELSE IF n = 3 THEN 8 ELSE IF n = 4 THEN 16 ELSE IF n = 5 THEN 32
           ELSE IF n = 6 THEN 64 ELSE IF n = 7 THEN 128 ELSE 256

\* (1 << bit) & chunk != 0
BitOf(chunk, b) == (chunk \div Pow2(b)) % 2

\* (x ^ y).trailing_zeros() for bytes x # y: the lowest bit in which they differ
XorTrailingZeros(x, y) ==
    CHOOSE t \in 0..7 : /\ BitOf(x, t) # BitOf(y, t)
                        /\ \A u \in 0..(t - 1) : BitOf(x, u) = BitOf(y, u)

Min(a, b) == IF a < b THEN a ELSE b

\* Byte-wise lexicographic order of two byte strings (the order of the store)
RECURSIVE LexLess(_, _)
LexLess(a, b) ==
    IF a = << >> THEN b # << >>
    ELSE IF b = << >> THEN FALSE
    ELSE IF Head(a) # Head(b) THEN Head(a) < Head(b)
    ELSE LexLess(Tail(a), Tail(b))

starts_with_bytes(k, p) ==
    /\ Len(p) <= Len(k)
    /\ SubSeq(k, 1, Len(p)) = p

(***************************************************************************)
(* ProofPath (proof_map_index/key.rs)                                       *)
(***************************************************************************)
BRANCH_KEY_PREFIX == 0
LEAF_KEY_PREFIX == 1
VALUE_KEY_PREFIX == 2
KEY_SIZE == KeyBytes
PROOF_PATH_SIZE == KEY_SIZE + 2
PROOF_PATH_KIND_POS == 0
PROOF_PATH_LEN_POS == KEY_SIZE + 1

Left == "Left"
Right == "Right"
\* impl Not for ChildKind
NotKind(kind) == IF kind = Left THEN Right ELSE Left

from_raw(raw) == [bytes |-> raw, start |-> 0]

\* ProofPath::new
ProofPath_new(key) == from_raw(<<LEAF_KEY_PREFIX>> \o key \o <<0>>)

is_leaf(p) == p.bytes[PROOF_PATH_KIND_POS + 1] = LEAF_KEY_PREFIX

raw_key(p) == SubSeq(p.bytes, 2, KEY_SIZE + 1)

start(p) == p.start

end(p) == IF is_leaf(p) THEN KEY_SIZE * 8 ELSE p.bytes[PROOF_PATH_LEN_POS + 1]

len(p) == end(p) - start(p)

set_end(p, e) ==
    IF e = KEY_SIZE * 8
    THEN [p EXCEPT !.bytes[PROOF_PATH_KIND_POS + 1] = LEAF_KEY_PREFIX,
                   !.bytes[PROOF_PATH_LEN_POS + 1] = 0]
    ELSE [p EXCEPT !.bytes[PROOF_PATH_KIND_POS + 1] = BRANCH_KEY_PREFIX,
                   !.bytes[PROOF_PATH_LEN_POS + 1] = e % 256]

bit(p, idx) ==
    LET pos == start(p) + idx
        chunk == raw_key(p)[(pos \div 8) + 1]
    IN  IF BitOf(chunk, pos % 8) # 0 THEN Right ELSE Left

start_from(p, s) == [bytes |-> p.bytes, start |-> s]

\* A prefix that takes pos for the end, whatever the start
prefix_from_zero(p, pos) == set_end([bytes |-> p.bytes, start |-> p.start], pos)

prefix(p, pos) == set_end([bytes |-> p.bytes, start |-> p.start], p.start + pos)

suffix(p, pos) == start_from(p, start(p) + pos)

\* The loop `for i in from..to` of common_prefix, from byte i on
RECURSIVE common_prefix_loop(_, _, _, _, _)
common_prefix_loop(a, b, i, to, max_len) ==
    IF i >= to THEN max_len
    ELSE IF raw_key(a)[i + 1] # raw_key(b)[i + 1]
         THEN LET tail == XorTrailingZeros(raw_key(a)[i + 1], raw_key(b)[i + 1])
              IN  Min((i * 8 + tail - start(a)) % 65536, max_len)
         ELSE common_prefix_loop(a, b, i + 1, to, max_len)

\* A common_prefix bounded by the length of the first path only
common_prefix_of_first(a, b) ==
    IF start(a) # start(b) THEN 0
    ELSE common_prefix_loop(a, b, start(a) \div 8,
             Min((end(a) + 7) \div 8, (end(b) + 7) \div 8), len(a))

common_prefix(a, b) ==
    IF start(a) # start(b) THEN 0
    ELSE LET from == start(a) \div 8
             to == Min((end(a) + 7) \div 8, (end(b) + 7) \div 8)
             max_len == Min(len(a), len(b))
         IN  common_prefix_loop(a, b, from, to, max_len)

\* The loop of common_prefix finds a difference below the start: the
\* subtraction `i * 8 + tail - self.start()` goes below zero
RECURSIVE common_prefix_below_start(_, _, _, _)
common_prefix_below_start(a, b, i, to) ==
    IF i >= to THEN FALSE
    ELSE IF raw_key(a)[i + 1] # raw_key(b)[i + 1]
         THEN i * 8 + XorTrailingZeros(raw_key(a)[i + 1], raw_key(b)[i + 1]) < start(a)
         ELSE common_prefix_below_start(a, b, i + 1, to)

\* common_prefix(a, b) overflows its subtraction
common_prefix_overflows(a, b) ==
    /\ start(a) = start(b)
    /\ common_prefix_below_start(a, b, start(a) \div 8,
            Min((end(a) + 7) \div 8, (end(b) + 7) \div 8))

starts_with(a, b) == common_prefix(a, b) = len(b)

\* impl PartialEq for ProofPath
path_eq(a, b) == len(a) = len(b) /\ starts_with(a, b)

\* A write that cuts the whole bytes after the end and leaves the bits after
\* the end in the byte of the end
write_whole_bytes(p) ==
    IF is_leaf(p) THEN p.bytes
    ELSE [j \in 1..PROOF_PATH_SIZE |->
            IF j - 1 >= (end(p) + 7) \div 8 + 1 /\ j - 1 < KEY_SIZE + 1 THEN 0
            ELSE p.bytes[j]]

\* A write that copies the bytes and cuts nothing
write_uncut(p) == p.bytes

\* impl StorageKey for ProofPath: write
write(p) ==
    IF is_leaf(p) THEN p.bytes
    ELSE LET right == (end(p) + 7) \div 8
         IN  [j \in 1..PROOF_PATH_SIZE |->
                IF j = right + 1 /\ end(p) % 8 # 0
                THEN p.bytes[j] % Pow2(end(p) % 8)
                ELSE IF j - 1 >= right + 1 /\ j - 1 < KEY_SIZE + 1 THEN 0
                ELSE p.bytes[j]]

\* impl StorageKey for ProofPath: read
read(buffer) == from_raw(buffer)


(***************************************************************************)
(* Hashes                                                                   *)
(***************************************************************************)
\* exonum_crypto::hash over a byte image; injective
Hash(image) == <<"hash", image>>
\* Hash::zero()
ZeroHash == <<"zero", << >>>>
\* A put over a root leaf that hashes the stored hash of the leaf once more
HashOfHash_again(h) == Hash(h)
\* UniqueHash for Hash: the hash of a stored hash is that hash
HashOfHash(h) == h

(***************************************************************************)
(* Sorting of raw keys (the ordered store)                                  *)
(***************************************************************************)
MinKey(S) == CHOOSE k \in S : \A o \in S : o = k \/ LexLess(k, o)

RECURSIVE SortKeys(_)
SortKeys(S) ==
    IF S = {} THEN << >>
    ELSE LET m == MinKey(S) IN <<m>> \o SortKeys(S \ {m})

\* d with key k bound to x
MapPut(d, k, x) == [j \in DOMAIN d \cup {k} |-> IF j = k THEN x ELSE d[j]]
\* d without key k
MapDel(d, k) == [j \in DOMAIN d \ {k} |-> d[j]]
EmptyMap == << >>

(***************************************************************************)
(* Change, ViewChanges, IndexAddress, View (views/mod.rs)                   *)
(***************************************************************************)
Put(v) == <<"Put", v>>
Delete == <<"Delete">>
IsPut(c) == c[1] = "Put"

\* ViewChanges::new
NewViewChanges == [data |-> EmptyMap, emptied |-> FALSE]
\* ViewChanges::is_empty
ViewChanges_is_empty(c) == c.emptied
\* ViewChanges::clear
ViewChanges_clear(c) == [data |-> EmptyMap, emptied |-> TRUE]

\* IndexAddress { name, bytes }
Address(name, bytes) == [name |-> name, bytes |-> bytes]

\* IndexAddress::keyed
keyed(address, key) ==
    <<address.name,
      IF address.bytes = << >> THEN key ELSE address.bytes[1] \o key>>

\* IndexAddress::append_name
append_name(address, sfx) ==
    [name |-> IF address.name = "" THEN sfx ELSE address.name \o "." \o sfx,
     bytes |-> address.bytes]

\* Snapshot::get(name, key) over a table of physical keys
Snapshot_get(snapshot, pk) ==
    IF pk \in DOMAIN snapshot THEN <<snapshot[pk]>> ELSE << >>

Snapshot_contains(snapshot, pk) == pk \in DOMAIN snapshot

\* Snapshot::iter(name, from): the pairs of table name with key >= from, ascending
Snapshot_iter(snapshot, pk) ==
    LET ks == {k[2] : k \in {q \in DOMAIN snapshot :
                                /\ q[1] = pk[1]
                                /\ ~LexLess(q[2], pk[2])}}
        sorted == SortKeys(ks)
    IN  [i \in 1..Len(sorted) |-> <<sorted[i], snapshot[<<pk[1], sorted[i]>>]>>]

\* The changes of a view: Some(ViewChanges) over a Fork, None over a Snapshot
View_changes(access, address) ==
    IF access.fork THEN <<access.changes[address]>> ELSE << >>

\* A get_bytes that takes a pending Delete for no change and asks the snapshot
get_bytes_skips_delete(access, address, key) ==
    LET ch == View_changes(access, address)
        inChanges == ch # << >> /\ key \in DOMAIN ch[1].data
    IN  IF inChanges /\ IsPut(ch[1].data[key])
        THEN <<ch[1].data[key][2]>>
        ELSE IF ch # << >> /\ ViewChanges_is_empty(ch[1]) THEN << >>
        ELSE Snapshot_get(access.snapshot, keyed(address, key))

\* View::get_bytes
get_bytes(access, address, key) ==
    LET ch == View_changes(access, address)
        inChanges == ch # << >> /\ key \in DOMAIN ch[1].data
    IN  IF inChanges
        THEN (IF IsPut(ch[1].data[key]) THEN <<ch[1].data[key][2]>> ELSE << >>)
        ELSE IF ch # << >> /\ ViewChanges_is_empty(ch[1]) THEN << >>
        ELSE Snapshot_get(access.snapshot, keyed(address, key))

\* View::contains_raw_key
contains_raw_key(access, address, key) ==
    LET ch == View_changes(access, address)
        inChanges == ch # << >> /\ key \in DOMAIN ch[1].data
    IN  IF inChanges
        THEN IsPut(ch[1].data[key])
        ELSE IF ch # << >> /\ ViewChanges_is_empty(ch[1]) THEN FALSE
        ELSE Snapshot_contains(access.snapshot, keyed(address, key))

\* SnapshotIter: the snapshot's entries from `from` on while the physical key
\* starts with the address prefix, with the prefix cut off
RECURSIVE SnapshotIter_take(_, _)
SnapshotIter_take(inner, pfx) ==
    IF inner = << >> THEN << >>
    ELSE IF starts_with_bytes(Head(inner)[1], pfx)
         THEN <<<<SubSeq(Head(inner)[1], Len(pfx) + 1, Len(Head(inner)[1])),
                  Head(inner)[2]>>>> \o SnapshotIter_take(Tail(inner), pfx)
         ELSE << >>

SnapshotIter(snapshot, address, from) ==
    LET pfx == IF address.bytes = << >> THEN << >> ELSE address.bytes[1]
    IN  SnapshotIter_take(Snapshot_iter(snapshot, keyed(address, from)), pfx)

\* A range of the changes that starts at the first key, whatever `from` is
changes_range_unbounded(c, from) ==
    LET sorted == SortKeys(DOMAIN c.data)
    IN  [i \in 1..Len(sorted) |-> <<sorted[i], c.data[sorted[i]]>>]

\* changes.data.range((Included(from), Unbounded)), ascending
changes_range(c, from) ==
    LET sorted == SortKeys({k \in DOMAIN c.data : ~LexLess(k, from)})
    IN  [i \in 1..Len(sorted) |-> <<sorted[i], c.data[sorted[i]]>>]

\* ChangesIter: the Put entries of a range of changes, Delete entries skipped
RECURSIVE ChangesIter(_)
ChangesIter(range) ==
    IF range = << >> THEN << >>
    ELSE IF IsPut(Head(range)[2])
         THEN <<<<Head(range)[1], Head(range)[2][2]>>>> \o ChangesIter(Tail(range))
         ELSE ChangesIter(Tail(range))

\* ForkIter: the ordered merge of a snapshot iterator and a range of changes;
\* a change shadows the snapshot entry of the same key, a Delete yields nothing
RECURSIVE ForkIter(_, _)
ForkIter(snap, range) ==
    IF range = << >> THEN snap
    ELSE IF snap = << >> THEN ChangesIter(range)
    ELSE LET sk == Head(snap)[1]
             ck == Head(range)[1]
             ch == Head(range)[2]
         IN  IF LexLess(sk, ck)
             THEN <<Head(snap)>> \o ForkIter(Tail(snap), range)
             ELSE IF sk = ck
             THEN (IF IsPut(ch) THEN <<<<ck, ch[2]>>>> ELSE << >>)
                  \o ForkIter(Tail(snap), Tail(range))
             ELSE (IF IsPut(ch) THEN <<<<ck, ch[2]>>>> ELSE << >>)
                  \o ForkIter(snap, Tail(range))

\* View::iter_bytes
iter_bytes(access, address, from) ==
    LET ch == View_changes(access, address)
    IN  IF ch # << >> /\ ViewChanges_is_empty(ch[1])
        THEN ChangesIter(changes_range(ch[1], from))
        ELSE ForkIter(SnapshotIter(access.snapshot, address, from),
                      IF ch = << >> THEN << >> ELSE changes_range(ch[1], from))

\* Iterator for Iter: the entries of the base iterator up to the first key that
\* does not start with the prefix
RECURSIVE Iter_take(_, _)
Iter_take(base, pfx) ==
    IF base = << >> THEN << >>
    ELSE IF starts_with_bytes(Head(base)[1], pfx)
         THEN <<Head(base)>> \o Iter_take(Tail(base), pfx)
         ELSE << >>

\* View::iter
View_iter(access, address, subprefix) ==
    Iter_take(iter_bytes(access, address, subprefix), subprefix)

\* View::iter_from
View_iter_from(access, address, subprefix, from) ==
    Iter_take(iter_bytes(access, address, from), subprefix)

\* View<&Fork>::put
View_put(access, address, key, value) ==
    [access EXCEPT !.changes[address].data = MapPut(@, key, Put(value))]

\* View<&Fork>::remove
View_remove(access, address, key) ==
    [access EXCEPT !.changes[address].data = MapPut(@, key, Delete)]

\* View<&Fork>::clear
View_clear(access, address) ==
    [access EXCEPT !.changes[address] = ViewChanges_clear(@)]

(***************************************************************************)
(* BranchNode (proof_map_index/node.rs): the 132-byte image as the tuple    *)
(* <<left_hash, right_hash, left_path, right_path>>                         *)
(***************************************************************************)
ZeroPath == [j \in 1..PROOF_PATH_SIZE |-> 0]

BranchNode_empty == <<ZeroHash, ZeroHash, ZeroPath, ZeroPath>>

child_hash(branch, kind) == IF kind = Right THEN branch[2] ELSE branch[1]

child_path(branch, kind) == read(IF kind = Right THEN branch[4] ELSE branch[3])

set_child_path(branch, kind, pfx) ==
    IF kind = Right THEN [branch EXCEPT ![4] = write(pfx)]
    ELSE [branch EXCEPT ![3] = write(pfx)]

\* A set_child_hash that leaves the stored hash of the child as it was
set_child_hash_stale(branch, kind, hash) == branch

set_child_hash(branch, kind, hash) ==
    IF kind = Right THEN [branch EXCEPT ![2] = hash]
    ELSE [branch EXCEPT ![1] = hash]

set_child(branch, kind, pfx, hash) ==
    set_child_hash(set_child_path(branch, kind, pfx), kind, hash)

\* A hash of a branch over the hashes of its children only, without their paths
BranchNode_hash_children(branch) == Hash(<<branch[1], branch[2]>>)

\* UniqueHash for BranchNode
BranchNode_hash(branch) == Hash(branch)

(***************************************************************************)
(* BranchNode as its byte image `raw`: two hashes of HASH_SIZE bytes, then  *)
(* two paths of PROOF_PATH_SIZE bytes.  A hash is here a sequence of        *)
(* HASH_SIZE bytes.                                                          *)
(***************************************************************************)
HASH_SIZE == HashBytes
BRANCH_NODE_SIZE == 2 * (HASH_SIZE + PROOF_PATH_SIZE)

\* raw[from..from + Len(bytes)].copy_from_slice(bytes), from counted from 0
copy_from_slice(raw, from, bytes) ==
    [j \in 1..Len(raw) |->
        IF j > from /\ j <= from + Len(bytes) THEN bytes[j - from] ELSE raw[j]]

\* BranchNode::empty
raw_empty == [j \in 1..BRANCH_NODE_SIZE |-> 0]

\* The offset of the hash of a child in the image
hash_from(kind) == IF kind = Right THEN HASH_SIZE ELSE 0

\* The offset of the path of a child in the image
path_from(kind) ==
    IF kind = Right THEN 2 * HASH_SIZE + PROOF_PATH_SIZE ELSE 2 * HASH_SIZE

\* BranchNode::child_hash
raw_child_hash(raw, kind) ==
    SubSeq(raw, hash_from(kind) + 1, hash_from(kind) + HASH_SIZE)

\* BranchNode::child_path
raw_child_path(raw, kind) ==
    read(SubSeq(raw, path_from(kind) + 1, path_from(kind) + PROOF_PATH_SIZE))

\* BranchNode::set_child_path
raw_set_child_path(raw, kind, pfx) ==
    copy_from_slice(raw, path_from(kind), write(pfx))

\* A set_child_hash that writes the hash of either child at the offset of
\* the left one
raw_set_child_hash_at_left(raw, kind, hash) == copy_from_slice(raw, 0, hash)

\* BranchNode::set_child_hash
raw_set_child_hash(raw, kind, hash) ==
    copy_from_slice(raw, hash_from(kind), hash)

\* BranchNode::set_child
raw_set_child(raw, kind, pfx, hash) ==
    raw_set_child_hash(raw_set_child_path(raw, kind, pfx), kind, hash)

(***************************************************************************)
(* ProofMapIndex (proof_map_index/mod.rs).  An index is a view: an access   *)
(* (a Fork or a Snapshot) and an address.  A mutating operation returns the *)
(* access it leaves behind.  A Node is <<"Leaf", hash>> or                  *)
(* <<"Branch", branch>>.                                                    *)
(***************************************************************************)
\* ValuePath::to_value_path
to_value_path(key) == <<VALUE_KEY_PREFIX>> \o key

\* ValuePath::from_value_path
from_value_path(buffer) == SubSeq(buffer, 2, Len(buffer))

\* get_root_path: the key of the first entry of the index, if any
get_root_path_next(it) == IF it = << >> THEN << >> ELSE <<read(it[1][1])>>

get_root_path(access, address) ==
    get_root_path_next(View_iter(access, address, << >>))

\* View::get(key).unwrap() for a node key
get_node_unchecked(access, address, path) ==
    <<IF is_leaf(path) THEN "Leaf" ELSE "Branch",
      get_bytes(access, address, write(path))[1]>>

\* get_root_node: the closure mapped over the root path
get_root_node_map(access, address, rp) ==
    IF rp = << >> THEN << >>
    ELSE <<<<rp[1], get_node_unchecked(access, address, rp[1])>>>>

get_root_node(access, address) ==
    get_root_node_map(access, address, get_root_path(access, address))

\* The match of merkle_root on the root node, with the stored hash of a root
\* leaf given as it is, without its path
merkle_root_bare_match(root) ==
    IF root = << >> THEN ZeroHash
    ELSE IF root[1][2][1] = "Leaf" THEN root[1][2][2]
         ELSE BranchNode_hash(root[1][2][2])

\* The match of merkle_root on the root node
merkle_root_match(root) ==
    IF root = << >> THEN ZeroHash
    ELSE IF root[1][2][1] = "Leaf"
         THEN Hash(<<root[1][1].bytes, root[1][2][2]>>)
         ELSE BranchNode_hash(root[1][2][2])

\* A merkle_root that gives the stored hash of a root leaf, without its path
merkle_root_bare_leaf(access, address) ==
    merkle_root_bare_match(get_root_node(access, address))

merkle_root(access, address) ==
    merkle_root_match(get_root_node(access, address))

\* ProofMapIndex::get
ProofMap_get(access, address, key) == get_bytes(access, address, to_value_path(key))

\* ProofMapIndex::contains
ProofMap_contains(access, address, key) ==
    contains_raw_key(access, address, to_value_path(key))

\* The hash of a value: the hash of its bytes
value_hash(value) == Hash(value)

\* An insert_leaf that stores the hash of the key in the leaf node
insert_leaf_key_hash(access, address, proof_path, key, value) ==
    [acc |-> View_put(View_put(access, address, write(proof_path), Hash(key)),
                      address, to_value_path(key), value),
     hash |-> Hash(key)]

\* insert_leaf: the access left behind and the hash of the value
insert_leaf(access, address, proof_path, key, value) ==
    [acc |-> View_put(View_put(access, address, write(proof_path),
                               value_hash(value)),
                      address, to_value_path(key), value),
     hash |-> value_hash(value)]

\* A remove_leaf that deletes the node of the leaf and forgets the value
remove_leaf_keeps_value(access, address, proof_path, key) ==
    View_remove(access, address, write(proof_path))

remove_leaf(access, address, proof_path, key) ==
    View_remove(View_remove(access, address, write(proof_path)),
                address, to_value_path(key))

\* A branch written back under `path`: the access left behind, the Option<u16>
\* of the result pair and the hash of the branch
put_branch(access, address, path, branch, j) ==
    [acc |-> View_put(access, address, write(path), branch),
     j |-> j, h |-> BranchNode_hash(branch)]

\* insert_branch, the child is a leaf: the leaf is overwritten
insert_branch_leaf(r) == [acc |-> r.acc, j |-> << >>, h |-> r.hash]

\* insert_branch, the child is a branch: the branch takes the result `r` of
\* the insertion below it
insert_branch_update(address, branch, child_path_, proof_path, i, r) ==
    put_branch(r.acc, address, child_path_,
               IF r.j # << >>
               THEN set_child(branch, bit(proof_path, i),
                              prefix(suffix(proof_path, i), r.j[1]), r.h)
               ELSE set_child_hash(branch, bit(proof_path, i), r.h),
               << >>)

\* insert_branch, the paths part at bit i: a new branch over the new leaf
\* (inserted with result `r`) and the old child
insert_branch_split(address, parent, proof_path, child_path_, i, suffix_path, r) ==
    put_branch(r.acc, address, prefix(proof_path, i),
               set_child(set_child(BranchNode_empty, bit(suffix_path, 0),
                                   suffix_path, r.hash),
                         bit(child_path_, i), suffix(child_path_, i),
                         child_hash(parent, bit(proof_path, 0))),
               <<i>>)

RECURSIVE insert_branch(_, _, _, _, _, _)
\* insert_branch with the child path and the common prefix length at hand
insert_branch_match(access, address, parent, proof_path, key, value, child_path_, i) ==
    IF len(child_path_) = i
    THEN IF is_leaf(child_path_)
         THEN insert_branch_leaf(
                  insert_leaf(access, address, proof_path, key, value))
         ELSE insert_branch_update(address,
                  get_node_unchecked(access, address, child_path_)[2],
                  child_path_, proof_path, i,
                  insert_branch(access, address,
                      get_node_unchecked(access, address, child_path_)[2],
                      suffix(proof_path, i), key, value))
    ELSE insert_branch_split(address, parent, proof_path, child_path_, i,
             suffix(proof_path, i),
             insert_leaf(access, address, suffix(proof_path, i), key, value))

\* insert_branch with the child path at hand
insert_branch_child(access, address, parent, proof_path, key, value, child_path_) ==
    insert_branch_match(access, address, parent, proof_path, key, value,
                        child_path_, common_prefix(child_path_, proof_path))

\* insert_branch: [acc, j, h] with j the Option<u16> of the result pair
insert_branch(access, address, parent, proof_path, key, value) ==
    insert_branch_child(access, address, parent, proof_path, key, value,
        start_from(child_path(parent, bit(proof_path, 0)), start(proof_path)))

\* A put over a root leaf that sets the two leaves in each other's slot
put_root_leaf_swapped(address, prefix_path, hash, proof_path, i, r) ==
    IF i < len(proof_path)
    THEN View_put(r.acc, address, write(prefix(proof_path, i)),
             set_child(set_child(BranchNode_empty, NotKind(bit(proof_path, i)),
                                 suffix(proof_path, i), r.hash),
                       NotKind(bit(prefix_path, i)), suffix(prefix_path, i),
                       HashOfHash(hash)))
    ELSE r.acc

\* put, the root is a leaf: a branch over the new leaf (inserted with result
\* `r`) and the root, unless the key is the key of the root
put_root_leaf(address, prefix_path, hash, proof_path, i, r) ==
    IF i < len(proof_path)
    THEN View_put(r.acc, address, write(prefix(proof_path, i)),
             set_child(set_child(BranchNode_empty, bit(proof_path, i),
                                 suffix(proof_path, i), r.hash),
                       bit(prefix_path, i), suffix(prefix_path, i),
                       HashOfHash(hash)))
    ELSE r.acc

\* A put below the root branch that leaves the root branch as it was
put_root_update_skipped(address, prefix_path, branch, suffix_path, r) == r.acc

\* put, the root is a branch whose path is a prefix of the key: the branch
\* takes the result `r` of the insertion below it
put_root_update(address, prefix_path, branch, suffix_path, r) ==
    View_put(r.acc, address, write(prefix_path),
        IF r.j # << >>
        THEN set_child(branch, bit(suffix_path, 0),
                       prefix(suffix_path, r.j[1]), r.h)
        ELSE set_child_hash(branch, bit(suffix_path, 0), r.h))

\* put, the root is a branch off the path of the key: a branch over the root
\* and the new leaf (inserted with result `r`)
put_root_split(address, prefix_path, branch, proof_path, i, r) ==
    View_put(r.acc, address, write(prefix(prefix_path, i)),
        set_child(set_child(BranchNode_empty, bit(prefix_path, i),
                            suffix(prefix_path, i), BranchNode_hash(branch)),
                  bit(proof_path, i), suffix(proof_path, i), r.hash))

\* put, the match on the root node, with the common prefix length at hand
put_root_match(access, address, key, value, proof_path, prefix_path, node, i) ==
    IF node[1] = "Leaf"
    THEN put_root_leaf(address, prefix_path, node[2], proof_path, i,
             insert_leaf(access, address, proof_path, key, value))
    ELSE IF i = len(prefix_path)
    THEN put_root_update(address, prefix_path, node[2], suffix(proof_path, i),
             insert_branch(access, address, node[2], suffix(proof_path, i),
                           key, value))
    ELSE put_root_split(address, prefix_path, node[2], proof_path, i,
             insert_leaf(access, address, proof_path, key, value))

\* put with the path of the key and the root node at hand
put_root(access, address, key, value, proof_path, root) ==
    IF root = << >>
    THEN insert_leaf(access, address, proof_path, key, value).acc
    ELSE put_root_match(access, address, key, value, proof_path,
             root[1][1], root[1][2], common_prefix(root[1][1], proof_path))

\* ProofMapIndex::put
ProofMap_put(access, address, key, value) ==
    put_root(access, address, key, value, ProofPath_new(key),
             get_root_node(access, address))

\* enum RemoveAction
KeyNotFound == <<"KeyNotFound">>
RemovedLeaf == <<"Leaf">>
RemovedBranch(path, hash) == <<"Branch", path, hash>>
UpdateHash(hash) == <<"UpdateHash", hash>>

\* A branch written back under `path` by remove_node: [acc, action]
update_branch(access, address, path, branch) ==
    [acc |-> View_put(access, address, write(path), branch),
     action |-> UpdateHash(BranchNode_hash(branch))]

\* A remove_node that keeps a branch that lost a leaf, its hash updated
remove_node_action_keeps_branch(address, child_path_, branch, suffix_path, kind, r) ==
    IF r.action[1] = "KeyNotFound" THEN [acc |-> r.acc, action |-> KeyNotFound]
    ELSE update_branch(r.acc, address, child_path_, branch)

\* remove_node, the child is a branch: the match on the result `r` of the
\* removal below it
remove_node_action(address, child_path_, branch, suffix_path, kind, r) ==
    IF r.action[1] = "Leaf"
    THEN [acc |-> View_remove(r.acc, address, write(child_path_)),
          action |-> RemovedBranch(child_path(branch, NotKind(kind)),
                                   child_hash(branch, NotKind(kind)))]
    ELSE IF r.action[1] = "Branch"
    THEN update_branch(r.acc, address, child_path_,
             set_child(branch, kind,
                       start_from(r.action[2], start(suffix_path)),
                       r.action[3]))
    ELSE IF r.action[1] = "UpdateHash"
    THEN update_branch(r.acc, address, child_path_,
             set_child_hash(branch, kind, r.action[2]))
    ELSE [acc |-> r.acc, action |-> KeyNotFound]

RECURSIVE remove_node(_, _, _, _, _)
\* remove_node, the child path is a prefix of the key: the match on the child
remove_node_child(access, address, proof_path, key, child_path_, i, node) ==
    IF node[1] = "Leaf"
    THEN [acc |-> remove_leaf(access, address, proof_path, key),
          action |-> RemovedLeaf]
    ELSE remove_node_action(address, child_path_, node[2],
             suffix(proof_path, i), bit(suffix(proof_path, i), 0),
             remove_node(access, address, node[2], suffix(proof_path, i), key))

\* remove_node with the child path and the common prefix length at hand
remove_node_match(access, address, proof_path, key, child_path_, i) ==
    IF i = len(child_path_)
    THEN remove_node_child(access, address, proof_path, key, child_path_, i,
             get_node_unchecked(access, address, child_path_))
    ELSE [acc |-> access, action |-> KeyNotFound]

\* remove_node with the child path at hand
remove_node_path(access, address, proof_path, key, child_path_) ==
    remove_node_match(access, address, proof_path, key, child_path_,
                      common_prefix(child_path_, proof_path))

\* remove_node: [acc, action]
remove_node(access, address, parent, proof_path, key) ==
    remove_node_path(access, address, proof_path, key,
        start_from(child_path(parent, bit(proof_path, 0)), start(proof_path)))

\* A remove at the root that leaves the root branch stored when one of its
\* two leaves is removed
remove_root_action_leaves_root(address, prefix_path, branch, suffix_path, kind, r) ==
    IF r.action[1] = "Leaf"
    THEN r.acc
    ELSE IF r.action[1] = "Branch"
    THEN View_put(r.acc, address, write(prefix_path),
             set_child(branch, kind,
                       start_from(r.action[2], start(suffix_path)),
                       r.action[3]))
    ELSE IF r.action[1] = "UpdateHash"
    THEN View_put(r.acc, address, write(prefix_path),
             set_child_hash(branch, kind, r.action[2]))
    ELSE r.acc

\* A remove at the root that, after a branch below collapsed, takes the hash
\* of the child left and keeps the path of the collapsed branch in the slot
remove_root_action_keeps_path(address, prefix_path, branch, suffix_path, kind, r) ==
    IF r.action[1] = "Leaf"
    THEN View_remove(r.acc, address, write(prefix_path))
    ELSE IF r.action[1] = "Branch" \/ r.action[1] = "UpdateHash"
    THEN View_put(r.acc, address, write(prefix_path),
             set_child_hash(branch, kind, r.action[Len(r.action)]))
    ELSE r.acc

\* remove, the root is a branch whose path is a prefix of the key: the match
\* on the result `r` of the removal below it
remove_root_action(address, prefix_path, branch, suffix_path, kind, r) ==
    IF r.action[1] = "Leaf"
    THEN View_remove(r.acc, address, write(prefix_path))
    ELSE IF r.action[1] = "Branch"
    THEN View_put(r.acc, address, write(prefix_path),
             set_child(branch, kind,
                       start_from(r.action[2], start(suffix_path)),
                       r.action[3]))
    ELSE IF r.action[1] = "UpdateHash"
    THEN View_put(r.acc, address, write(prefix_path),
             set_child_hash(branch, kind, r.action[2]))
    ELSE r.acc

\* remove, the root is a branch, with the common prefix length at hand
remove_root_branch(access, address, key, proof_path, prefix_path, branch, i) ==
    IF i # len(prefix_path) THEN access
    ELSE remove_root_action(address, prefix_path, branch,
             suffix(proof_path, i), bit(suffix(proof_path, i), 0),
             remove_node(access, address, branch, suffix(proof_path, i), key))

\* A remove that takes out a root leaf whatever the key asked for
remove_root_match_any_leaf(access, address, key, proof_path, prefix_path, node) ==
    IF node[1] = "Leaf"
    THEN remove_leaf(access, address, prefix_path, raw_key(prefix_path))
    ELSE remove_root_branch(access, address, key, proof_path, prefix_path,
             node[2], common_prefix(prefix_path, proof_path))

\* remove, the match on the root node
remove_root_match(access, address, key, proof_path, prefix_path, node) ==
    IF node[1] = "Leaf"
    THEN IF path_eq(proof_path, prefix_path)
         THEN remove_leaf(access, address, proof_path, key)
         ELSE access
    ELSE remove_root_branch(access, address, key, proof_path, prefix_path,
             node[2], common_prefix(prefix_path, proof_path))

\* remove with the path of the key and the root node at hand
remove_root(access, address, key, proof_path, root) ==
    IF root = << >> THEN access
    ELSE remove_root_match(access, address, key, proof_path,
                           root[1][1], root[1][2])

\* ProofMapIndex::remove
ProofMap_remove(access, address, key) ==
    remove_root(access, address, key, ProofPath_new(key),
                get_root_node(access, address))

\* A clear that leaves the index as it is
ProofMap_clear_keeps(access, address) == access

\* ProofMapIndex::clear
ProofMap_clear(access, address) == View_clear(access, address)

\* ProofMapIndex::iter: the (key, value) pairs in ascending order of keys
RECURSIVE ProofMapIndexIter(_)
ProofMapIndexIter(base) ==
    IF base = << >> THEN << >>
    ELSE <<<<from_value_path(Head(base)[1]), Head(base)[2]>>>>
         \o ProofMapIndexIter(Tail(base))

ProofMap_iter(access, address) ==
    ProofMapIndexIter(View_iter(access, address, <<VALUE_KEY_PREFIX>>))

(***************************************************************************)
(* MapProof: construction and verification (proof_map_index/proof.rs is not *)
(* among the sources; modelled from the specification, section 4.4).        *)
(* A proof is [entries, proof]: entries is a sequence of                    *)
(* <<key, Option value>>, proof a sequence of [path, hash] ordered by path. *)
(***************************************************************************)
\* The order of ProofPaths that start at 0: bit by bit, a prefix first
PathLess(a, b) ==
    LET i == common_prefix(a, b)
    IN  IF i = len(b) THEN FALSE
        ELSE IF i = len(a) THEN TRUE
        ELSE bit(a, i) = Left

RECURSIVE SortProof(_)
SortProof(S) ==
    IF S = {} THEN << >>
    ELSE LET m == CHOOSE x \in S : \A y \in S : y = x \/ PathLess(x.path, y.path)
         IN  <<m>> \o SortProof(S \ {m})

ProofEntry(path, hash) == [path |-> path, hash |-> hash]

\* The walk of create_proof from a branch stored under node_path: the set of
\* proof entries and the Option value found
RECURSIVE create_proof_walk(_, _, _, _, _, _)
create_proof_walk(access, address, key, branch, node_path, siblings) ==
    LET searched == ProofPath_new(key)
        next_bit == bit(searched, len(node_path))
        next_path == child_path(branch, next_bit)
        other == ProofEntry(child_path(branch, NotKind(next_bit)),
                            child_hash(branch, NotKind(next_bit)))
    IN  IF ~starts_with(searched, next_path)
        THEN [found |-> << >>,
              proof |-> siblings \cup
                        {other, ProofEntry(next_path, child_hash(branch, next_bit))}]
        ELSE IF is_leaf(next_path)
        THEN [found |-> <<ProofMap_get(access, address, key)[1]>>,
              proof |-> siblings \cup {other}]
        ELSE create_proof_walk(access, address, key,
                 get_node_unchecked(access, address, next_path)[2],
                 next_path, siblings \cup {other})

\* create_proof
create_proof(access, address, key) ==
    LET root == get_root_node(access, address)
    IN  IF root = << >> THEN [entries |-> <<<<key, << >>>>>>, proof |-> << >>]
        ELSE IF root[1][2][1] = "Leaf"
        THEN IF path_eq(root[1][1], ProofPath_new(key))
             THEN [entries |-> <<<<key, <<ProofMap_get(access, address, key)[1]>>>>>>,
                   proof |-> << >>]
             ELSE [entries |-> <<<<key, << >>>>>>,
                   proof |-> <<ProofEntry(root[1][1], root[1][2][2])>>]
        ELSE LET w == create_proof_walk(access, address, key, root[1][2][2],
                                        root[1][1], {})
             IN  [entries |-> <<<<key, w.found>>>>, proof |-> SortProof(w.proof)]

\* ProofMapIndex::get_proof
get_proof(access, address, key) == create_proof(access, address, key)

\* The walk of create_multiproof below the node stored under path, for the
\* searched keys that start with path: [found, proof], found a set of
\* <<key, value>>
RECURSIVE multiproof_walk(_, _, _, _)
multiproof_walk(access, address, keys, path) ==
    IF is_leaf(path)
    THEN [found |-> {<<k, ProofMap_get(access, address, k)[1]>> : k \in keys},
          proof |-> {}]
    ELSE LET branch == get_node_unchecked(access, address, path)[2]
             Under(kind) == {k \in keys :
                               starts_with(ProofPath_new(k), child_path(branch, kind))}
             Side(kind) ==
                 IF Under(kind) = {}
                 THEN [found |-> {},
                       proof |-> {ProofEntry(child_path(branch, kind),
                                             child_hash(branch, kind))}]
                 ELSE multiproof_walk(access, address, Under(kind),
                                      child_path(branch, kind))
         IN  [found |-> Side(Left).found \cup Side(Right).found,
              proof |-> Side(Left).proof \cup Side(Right).proof]

RECURSIVE SeqOfSet(_)
SeqOfSet(S) ==
    IF S = {} THEN << >>
    ELSE LET x == CHOOSE y \in S : TRUE IN <<x>> \o SeqOfSet(S \ {x})

Range(sq) == {sq[j] : j \in DOMAIN sq}

\* create_multiproof: one traversal for all the unique keys requested
create_multiproof(access, address, keys) ==
    LET unique == Range(keys)
        root == get_root_node(access, address)
        w == IF root = << >> THEN [found |-> {}, proof |-> {}]
             ELSE IF root[1][2][1] = "Leaf"
             THEN (IF \E k \in unique : path_eq(root[1][1], ProofPath_new(k))
                   THEN multiproof_walk(access, address,
                            {k \in unique : path_eq(root[1][1], ProofPath_new(k))},
                            root[1][1])
                   ELSE [found |-> {},
                         proof |-> {ProofEntry(root[1][1], root[1][2][2])}])
             ELSE multiproof_walk(access, address,
                      {k \in unique : starts_with(ProofPath_new(k), root[1][1])},
                      root[1][1])
        missing == {k \in unique : \A e \in w.found : e[1] # k}
    IN  [entries |-> SeqOfSet({<<e[1], <<e[2]>>>> : e \in w.found}
                              \cup {<<k, << >>>> : k \in missing}),
         proof |-> SortProof(w.proof)]

\* ProofMapIndex::get_multiproof
get_multiproof(access, address, keys) == create_multiproof(access, address, keys)

\* The branch image of two sibling entries, Left first
hash_branch(l, r) == Hash(<<l.hash, r.hash, write(l.path), write(r.path)>>)

\* Folding: the two entries with the longest common prefix are siblings and
\* are replaced by their parent, until one entry is left
RECURSIVE fold(_)
fold(S) ==
    IF Cardinality(S) <= 1 THEN S
    ELSE LET pairs == {pr \in S \X S : pr[1] # pr[2]}
             best == CHOOSE pr \in pairs :
                        /\ bit(pr[1].path, common_prefix(pr[1].path, pr[2].path)) = Left
                        /\ \A o \in pairs :
                              common_prefix(o[1].path, o[2].path)
                                  <= common_prefix(pr[1].path, pr[2].path)
             i == common_prefix(best[1].path, best[2].path)
         IN  fold((S \ {best[1], best[2]})
                  \cup {ProofEntry(read(write(prefix(best[1].path, i))),
                                   hash_branch(best[1], best[2]))})

\* MapProof::check: [err, hash, entries]; err is "" when the proof is well
\* formed, and then hash is the root hash it commits to
MapProof_check(mp) ==
    LET some == {j \in DOMAIN mp.entries : mp.entries[j][2] # << >>}
        leaves == {ProofEntry(ProofPath_new(mp.entries[j][1]),
                              value_hash(mp.entries[j][2][1])) : j \in some}
        proofPaths == {mp.proof[j].path : j \in DOMAIN mp.proof}
        entryPaths == {ProofPath_new(mp.entries[j][1]) : j \in DOMAIN mp.entries}
        all == Range(mp.proof) \cup leaves
        unordered == \E j \in 1..(Len(mp.proof) - 1) :
                        PathLess(mp.proof[j + 1].path, mp.proof[j].path)
        duplicate ==
            \/ \E j, k \in DOMAIN mp.proof :
                  j # k /\ path_eq(mp.proof[j].path, mp.proof[k].path)
            \/ \E j, k \in DOMAIN mp.entries :
                  j # k /\ mp.entries[j][1] = mp.entries[k][1]
            \/ \E x \in proofPaths, y \in entryPaths : path_eq(x, y)
        embedded ==
            \/ \E x, y \in proofPaths : ~path_eq(x, y) /\ starts_with(y, x)
            \/ \E x \in proofPaths, y \in entryPaths : starts_with(y, x)
        top == fold(all)
        one == CHOOSE x \in top : TRUE
        Fail(e) == [err |-> e, hash |-> ZeroHash, entries |-> << >>]
    IN  IF unordered THEN Fail("MalformedStructure")
        ELSE IF duplicate THEN Fail("DuplicateEntry")
        ELSE IF embedded THEN Fail("EmbeddedKey")
        ELSE IF all = {} THEN [err |-> "", hash |-> ZeroHash, entries |-> mp.entries]
        ELSE IF Cardinality(all) = 1 /\ ~is_leaf(one.path)
        THEN Fail("NonTerminalNode")
        ELSE [err |-> "",
              hash |-> IF Cardinality(all) = 1
                       THEN Hash(<<one.path.bytes, one.hash>>)
                       ELSE one.hash,
              entries |-> mp.entries]

\* MapProof::verify against a claimed root hash
\* A verification that does not compare the computed hash with the expected one
MapProof_verify_unchecked(mp, expected) == MapProof_check(mp)

MapProof_verify(mp, expected) ==
    LET c == MapProof_check(mp)
    IN  IF c.err # "" THEN c
        ELSE IF c.hash # expected
        THEN [err |-> "HashMismatch", hash |-> c.hash, entries |-> << >>]
        ELSE c

(***************************************************************************)
(* Index metadata (views/index_metadata.rs) and IndexBuilder (views/mod.rs) *)
(***************************************************************************)
INDEX_METADATA_NAME == "__INDEX_METADATA__"

\* enum IndexType: the kinds
IndexType_Map == "Map"
IndexType_List == "List"
IndexType_Entry == "Entry"
IndexType_ValueSet == "ValueSet"
IndexType_KeySet == "KeySet"
IndexType_SparseList == "SparseList"
IndexType_ProofList == "ProofList"
IndexType_ProofMap == "ProofMap"
IndexTypes ==
    {IndexType_Map, IndexType_List, IndexType_Entry, IndexType_ValueSet,
     IndexType_KeySet, IndexType_SparseList, IndexType_ProofList, IndexType_ProofMap}

\* derive(Primitive) for IndexType: to_u8, the discriminant of a kind
to_u8(kind) ==
    CASE kind = IndexType_Map -> 1
      [] kind = IndexType_List -> 2
      [] kind = IndexType_Entry -> 3
      [] kind = IndexType_ValueSet -> 4
      [] kind = IndexType_KeySet -> 5
      [] kind = IndexType_SparseList -> 6
      [] kind = IndexType_ProofList -> 7
      [] kind = IndexType_ProofMap -> 8

\* derive(Primitive) for IndexType: from_u8, Option<IndexType>
from_u8(value) ==
    CASE value = 1 -> <<IndexType_Map>>
      [] value = 2 -> <<IndexType_List>>
      [] value = 3 -> <<IndexType_Entry>>
      [] value = 4 -> <<IndexType_ValueSet>>
      [] value = 5 -> <<IndexType_KeySet>>
      [] value = 6 -> <<IndexType_SparseList>>
      [] value = 7 -> <<IndexType_ProofList>>
      [] value = 8 -> <<IndexType_ProofMap>>
      [] OTHER -> << >>

\* Result<IndexType, failure::Error>
TypeOk(kind) == [ok |-> TRUE, value |-> <<kind>>, error |-> ""]
TypeErr(error) == [ok |-> FALSE, value |-> << >>, error |-> error]

\* impl BinaryValue for IndexType: to_bytes
IndexType_to_bytes(t) == <<to_u8(t)>>

\* A from_bytes that takes the first byte of a buffer of any length
IndexType_from_bytes_first_byte(bytes) ==
    IF bytes = << >> THEN TypeErr("Wrong buffer size")
    ELSE IF from_u8(bytes[1]) = << >> THEN TypeErr("Unknown value")
    ELSE TypeOk(from_u8(bytes[1])[1])

\* impl BinaryValue for IndexType: from_bytes
IndexType_from_bytes(bytes) ==
    IF Len(bytes) # 1 THEN TypeErr("Wrong buffer size")
    ELSE IF from_u8(bytes[1]) = << >> THEN TypeErr("Unknown value")
    ELSE TypeOk(from_u8(bytes[1])[1])

\* bool as a stored value
bool_to_bytes(b) == IF b THEN <<1>> ELSE <<0>>
bool_from_bytes(bytes) == bytes[1] = 1

\* The keys of the two fields of the record
INDEX_TYPE_KEY == <<"index_type">>
HAS_PARENT_KEY == <<"has_parent">>

\* A metadata address that is the address of the index itself, without the
\* family id: the record lies among the entries of the index
IndexMetadataAddress_in_index(address) == [address EXCEPT !.bytes = << >>]

\* A metadata address that keeps the family id: one record per family member
IndexMetadataAddress_per_member(address) ==
    append_name(address, INDEX_METADATA_NAME)

\* impl From<&IndexAddress> for IndexMetadataAddress: one record for all the
\* indexes of a family
IndexMetadataAddress(address) ==
    [append_name(address, INDEX_METADATA_NAME) EXCEPT !.bytes = << >>]

\* struct IndexMetadata
IndexMetadata(index_type, has_parent) ==
    [index_type |-> index_type, has_parent |-> has_parent]

\* IndexMetadataView::index_metadata: Option<IndexMetadata>
index_metadata(access, maddr) ==
    LET index_type == get_bytes(access, maddr, INDEX_TYPE_KEY)
        has_parent == get_bytes(access, maddr, HAS_PARENT_KEY)
    IN  IF index_type = << >> THEN << >>
        ELSE <<IndexMetadata(IndexType_from_bytes(index_type[1]).value[1],
                             bool_from_bytes(has_parent[1]))>>

\* IndexMetadataView<&Fork>::set_index_metadata
set_index_metadata(access, maddr, metadata) ==
    View_put(View_put(access, maddr, INDEX_TYPE_KEY,
                      IndexType_to_bytes(metadata.index_type)),
             maddr, HAS_PARENT_KEY, bool_to_bytes(metadata.has_parent))

\* A check_or_create_metadata that checks the saved record and writes nothing
check_or_create_metadata_checks_only(access, address, metadata) ==
    LET saved == index_metadata(access, IndexMetadataAddress(address))
    IN  [panic |-> saved # << >> /\ saved[1] # metadata, acc |-> access]

\* check_or_create_metadata: [panic, acc]; the assertion on the saved record
\* comes first, the record is written whenever the access is a Fork
check_or_create_metadata(access, address, metadata) ==
    LET maddr == IndexMetadataAddress(address)
        saved == index_metadata(access, maddr)
    IN  IF saved # << >> /\ saved[1] # metadata
        THEN [panic |-> TRUE, acc |-> access]
        ELSE [panic |-> FALSE,
              acc |-> IF access.fork
                      THEN set_index_metadata(access, maddr, metadata)
                      ELSE access]

\* A build that asks for a plain index whatever the address
IndexBuilder_build_plain(access, address, index_type) ==
    check_or_create_metadata(access, address, IndexMetadata(index_type, FALSE))

\* IndexBuilder::build for an address and an index type
IndexBuilder_build(access, address, index_type) ==
    check_or_create_metadata(access, address,
        IndexMetadata(index_type, address.bytes # << >>))

(***************************************************************************)
(* Database, Snapshot, Fork, Patch                                          *)
(*                                                                          *)
(* A database is a table from physical keys <<name, bytes>> to values.  A   *)
(* Snapshot is the table at the instant it was taken.  A Fork holds a       *)
(* Snapshot, the ViewChanges of every address and a stack of savepoints.    *)
(***************************************************************************)
\* The addresses that occur in the model
PMAddr == Address("index", << >>)
AddrA == Address("a", << >>)
AddrB == Address("b", <<<<9>>>>)
\* The addresses opened through IndexBuilder: a plain index and two members
\* of a family under one name, and a plain index under another name
AddrX == Address("x", << >>)
AddrX1 == Address("x", <<<<1>>>>)
AddrX2 == Address("x", <<<<2>>>>)
AddrY == Address("y", << >>)
MetaAddrs == {AddrX, AddrX1, AddrX2, AddrY}
\* Two members of the family "f" with the family ids [1] and [1, 2], the
\* first a prefix of the second, a third member with the family id [3],
\* and a member of another family
AddrF1 == Address("f", <<<<1>>>>)
AddrF12 == Address("f", <<<<1, 2>>>>)
AddrF3 == Address("f", <<<<3>>>>)
AddrG1 == Address("g", <<<<1>>>>)
FamilyAddrs == {AddrF1, AddrF12, AddrF3, AddrG1}
Addrs == {PMAddr, AddrA, AddrB} \cup MetaAddrs \cup FamilyAddrs
             \cup {IndexMetadataAddress(a) : a \in MetaAddrs \cup FamilyAddrs}

\* RocksDB::snapshot: the consistent view of the database at this instant
RocksDB_snapshot(database) == [table |-> database]

\* A snapshot that reads through to the database as it is now
RocksDBSnapshot_table_live(snap, database) == database

\* impl Snapshot for RocksDBSnapshot: a snapshot reads its own table, whatever
\* the database holds by now
RocksDBSnapshot_table(snap, database) == snap.table

\* The access of an index opened on a Snapshot
SnapshotAccess(snap, database) ==
    [fork |-> FALSE, snapshot |-> RocksDBSnapshot_table(snap, database),
     changes |-> << >>, savepoints |-> << >>]

\* Database::fork: a Fork over a fresh snapshot, with no changes
Database_fork(database) ==
    [fork |-> TRUE, snapshot |-> RocksDB_snapshot(database).table,
     changes |-> [a \in Addrs |-> NewViewChanges], savepoints |-> << >>]

\* Fork::into_patch: the ViewChanges of every address
into_patch(f) == f.changes

\* Fork::checkpoint: the current ViewChanges pushed on the savepoint stack
Fork_checkpoint(f) == [f EXCEPT !.savepoints = Append(@, f.changes)]

\* A rollback that pops the savepoint and keeps the changes made since
Fork_rollback_keeps(f) ==
    [f EXCEPT !.savepoints = SubSeq(@, 1, Len(@) - 1)]

\* Fork::rollback: the ViewChanges of the last savepoint restored, the
\* savepoint popped
Fork_rollback(f) ==
    [f EXCEPT !.changes = f.savepoints[Len(f.savepoints)],
              !.savepoints = SubSeq(@, 1, Len(@) - 1)]

\* Fork::commit_checkpoint: the last savepoint discarded, the changes kept
Fork_commit_checkpoint(f) ==
    [f EXCEPT !.savepoints = SubSeq(@, 1, Len(@) - 1)]

\* Whether a physical key lies in the keyspace of the view at an address
InView(pk, address) ==
    /\ pk[1] = address.name
    /\ starts_with_bytes(pk[2], IF address.bytes = << >> THEN << >>
                                ELSE address.bytes[1])

\* A merge that leaves the keyspace of a cleared view as it is
WipeView_keeps(table, address, vc) == table

\* The keyspace of a cleared view wiped from a table
WipeView(table, address, vc) ==
    IF vc.emptied
    THEN [pk \in {x \in DOMAIN table : ~InView(x, address)} |-> table[pk]]
    ELSE table

\* A merge in which a Put of a key the table already holds is dropped: the
\* first writer wins
ApplyView_first_wins(table, address, vc) ==
    LET puts == {k \in DOMAIN vc.data : IsPut(vc.data[k])}
        dels == {keyed(address, k) : k \in DOMAIN vc.data \ puts}
        putPk == {keyed(address, k) : k \in puts} \ DOMAIN table
        KeyOf(pk) == CHOOSE k \in puts : keyed(address, k) = pk
    IN  [pk \in (DOMAIN table \ dels) \cup putPk |->
            IF pk \in putPk THEN vc.data[KeyOf(pk)][2] ELSE table[pk]]

\* A merge that writes the Put changes and drops the Delete changes
ApplyView_puts_only(table, address, vc) ==
    LET puts == {k \in DOMAIN vc.data : IsPut(vc.data[k])}
        putPk == {keyed(address, k) : k \in puts}
        KeyOf(pk) == CHOOSE k \in puts : keyed(address, k) = pk
    IN  [pk \in DOMAIN table \cup putPk |->
            IF pk \in putPk THEN vc.data[KeyOf(pk)][2] ELSE table[pk]]

\* The changes of one view in the write batch: batch.put for a Put,
\* batch.delete for a Delete
ApplyView(table, address, vc) ==
    LET puts == {k \in DOMAIN vc.data : IsPut(vc.data[k])}
        dels == {keyed(address, k) : k \in DOMAIN vc.data \ puts}
        putPk == {keyed(address, k) : k \in puts}
        KeyOf(pk) == CHOOSE k \in puts : keyed(address, k) = pk
    IN  [pk \in (DOMAIN table \ dels) \cup putPk |->
            IF pk \in putPk THEN vc.data[KeyOf(pk)][2] ELSE table[pk]]

\* The write batch of a patch, view by view
RECURSIVE ApplyPatch(_, _, _)
ApplyPatch(table, patch, todo) ==
    IF todo = {} THEN table
    ELSE LET a == CHOOSE x \in todo : TRUE
         IN  ApplyPatch(ApplyView(WipeView(table, a, patch[a]), a, patch[a]),
                        patch, todo \ {a})

\* The ways a merge ends: done, an error while the batch is built, an error
\* of the write of the batch
MergeOk == "ok"
BatchError == "batch error"
WriteError == "write error"
MergeOutcomes == {MergeOk, BatchError, WriteError}

\* A merge that writes change by change instead of one batch: an error
\* leaves the views written so far
RocksDB_merge_unbatched(database, patch, outcome) ==
    IF outcome = MergeOk
    THEN [db |-> ApplyPatch(database, patch, DOMAIN patch), ok |-> TRUE]
    ELSE LET a == CHOOSE x \in DOMAIN patch :
                     \A y \in DOMAIN patch : patch[y].data # EmptyMap
                                                 => patch[x].data # EmptyMap
         IN  [db |-> ApplyView(database, a, patch[a]), ok |-> FALSE]

\* RocksDB::merge: the changes of the patch go into a WriteBatch; an error
\* while the batch is built returns before anything is written, and the
\* write of the batch is atomic, so an error leaves the table as it was
RocksDB_merge(database, patch, outcome) ==
    IF outcome = BatchError THEN [db |-> database, ok |-> FALSE]
    ELSE IF outcome = WriteError THEN [db |-> database, ok |-> FALSE]
    ELSE [db |-> ApplyPatch(database, patch, DOMAIN patch), ok |-> TRUE]

(***************************************************************************)
(* Network part (exonum/src/events/network.rs).  The sending side is a      *)
(* record [pool, out, events]: pool maps a peer to the outgoing connection  *)
(* whose channel sender it holds (0 for none), out is the sequence of the   *)
(* outgoing connections ever opened, events the NetworkEvents sent to the   *)
(* node.  A connection has a peer, a phase, the queue of its channel, and   *)
(* the handler of the listener it reaches: what that handler has received   *)
(* (wire), its state and the events it has emitted.                          *)
(***************************************************************************)
\* The messages of the model: the Connect message of this node, the Connect
\* message of another node, and a message that is not a Connect
OurConnect == [kind |-> "Connect", author |-> "self"]
PeerConnect == [kind |-> "Connect", author |-> "peer"]
StatusMessage == [kind |-> "Status", author |-> "self"]
NetMessages == {OurConnect, PeerConnect, StatusMessage}
NetPeers == {"peer1", "peer2"}

\* NetworkConfiguration
max_outgoing_connections == MaxOutgoing
max_incoming_connections == MaxIncoming

\* enum NetworkEvent
MessageReceived(raw) == <<"MessageReceived", raw>>
PeerConnected(connect) == <<"PeerConnected", connect>>
PeerDisconnected(peer) == <<"PeerDisconnected", peer>>
UnableConnectToPeer(peer) == <<"UnableConnectToPeer", peer>>

\* The handler of an incoming connection before its first message
NewHandler == [rstate |-> "first", wire |-> << >>, events |-> << >>]

\* Listener::parse_connect_message for Some(raw)
parse_connect_message(raw) ==
    IF raw.kind = "Connect" THEN [ok |-> TRUE, connect |-> raw]
    ELSE [ok |-> FALSE, connect |-> raw]

\* Listener::handle_incoming_connection and process_incoming_messages, for
\* the next message of the stream of a connection: the first message is
\* parsed as a Connect and gives PeerConnected or ends the handler with an
\* error; every later message gives MessageReceived
handle_incoming_message(h, raw) ==
    IF h.rstate = "first"
    THEN IF parse_connect_message(raw).ok
         THEN [rstate |-> "open", wire |-> Append(h.wire, raw),
               events |-> <<PeerConnected(parse_connect_message(raw).connect)>>]
         ELSE [rstate |-> "failed", wire |-> Append(h.wire, raw), events |-> h.events]
    ELSE IF h.rstate = "open"
    THEN [rstate |-> "open", wire |-> Append(h.wire, raw),
          events |-> Append(h.events, MessageReceived(raw))]
    ELSE h

\* ConnectionsPool::len
ConnectionsPool_len(pool) == Cardinality({p \in DOMAIN pool : pool[p] # 0})

\* conn_tx.send(message) into the channel of connection id
channel_send(n, id, message) ==
    [n EXCEPT !.out[id].queue = Append(@, message),
              !.out[id].sent = Append(@, message)]

\* A connect_to_peer that registers the channel whatever the pool holds
connect_to_peer_unlimited(n, peer) ==
    [some |-> TRUE,
     n |-> [n EXCEPT !.pool[peer] = Len(n.out) + 1,
                     !.out = Append(@, [peer |-> peer, phase |-> "connecting",
                                        queue |-> << >>, sent |-> << >>,
                                        closed |-> FALSE, opened_at |-> Len(n.events),
                                        handler |-> NewHandler])]]

\* ConnectionsPool::connect_to_peer: None when the pool holds the limit of
\* peers; otherwise a new channel registered for the peer and the future of
\* the connection spawned
connect_to_peer(n, peer) ==
    IF ConnectionsPool_len(n.pool) >= max_outgoing_connections
    THEN [some |-> FALSE, n |-> n]
    ELSE [some |-> TRUE,
          n |-> [n EXCEPT !.pool[peer] = Len(n.out) + 1,
                          !.out = Append(@, [peer |-> peer, phase |-> "connecting",
                                             queue |-> << >>, sent |-> << >>,
                                             closed |-> FALSE,
                                             opened_at |-> Len(n.events),
                                             handler |-> NewHandler])]]

\* ConnectionsPool::disconnect_with_peer: the sender of the peer removed from
\* the pool, which closes the channel it belongs to, and PeerDisconnected
\* sent; an error when the pool holds no sender of the peer
disconnect_with_peer(n, peer) ==
    IF n.pool[peer] = 0 THEN [ok |-> FALSE, n |-> n]
    ELSE [ok |-> TRUE,
          n |-> [n EXCEPT !.pool[peer] = 0,
                          !.out[n.pool[peer]].closed = TRUE,
                          !.events = Append(@, PeerDisconnected(peer))]]

\* A handle_send_message that queues the message alone on a new connection
handle_send_message_bare(n, peer, message) ==
    IF n.pool[peer] # 0 THEN channel_send(n, n.pool[peer], message)
    ELSE LET r == connect_to_peer(n, peer)
         IN  IF r.some
             THEN channel_send(r.n, r.n.pool[peer], message)
             ELSE [n EXCEPT !.events = Append(@, UnableConnectToPeer(peer))]

\* RequestHandler::handle_send_message
handle_send_message(n, peer, message) ==
    IF n.pool[peer] # 0 THEN channel_send(n, n.pool[peer], message)
    ELSE LET r == connect_to_peer(n, peer)
         IN  IF r.some
             THEN IF message = OurConnect
                  THEN channel_send(r.n, r.n.pool[peer], message)
                  ELSE channel_send(channel_send(r.n, r.n.pool[peer], OurConnect),
                                    r.n.pool[peer], message)
             ELSE [n EXCEPT !.events = Append(@, UnableConnectToPeer(peer))]

(***************************************************************************)
(* State                                                                    *)
(***************************************************************************)
VARIABLES
    pmDb,       \* SpecMap: the database under the ProofMap
    pmFork,     \* SpecMap: the Fork the ProofMap index is open on
    pmModel,    \* SpecMap: key -> Option value, the puts not undone so far
    pmFresh,    \* SpecMap: only puts of new keys since the map was last empty
    pmOps,      \* SpecMap: operations done
    pmLast,     \* SpecMap: the key of the last put or remove
    pmLastOp,   \* SpecMap: the last operation
    prDb,       \* SpecProof: the database under the ProofMap
    prFork,     \* SpecProof: the Fork the ProofMap index is open on
    prModel,    \* SpecProof: key -> Option value, the content M
    prOps,      \* SpecProof: operations done
    dbTable,    \* SpecDb: the table of the database
    dbSnaps,    \* SpecDb: the Snapshots taken, each with what it read when taken
    dbForks,    \* SpecDb: the Forks alive, each with the merges done when created
    dbMerged,   \* SpecDb: the patches merged so far, in order
    dbLast,     \* SpecDb: the last call of merge: table before, patch, result
    dbPrev,     \* SpecDb: the merge before the last, when both succeeded with Forks of one state
    dbOps,      \* SpecDb: changes recorded in Forks so far
    fkFork,     \* SpecFork: the Fork
    fkLatest,   \* SpecFork: address, key -> the latest pending change, if any
    fkCleared,  \* SpecFork: address -> the view was cleared
    fkSeen,     \* SpecFork: per savepoint, the reads and pending changes then
    fkBack,     \* SpecFork: after a rollback, the reads before its checkpoint and before it
    fkMerged,   \* SpecFork: the last merge of the Fork: what was pending, table before and after
    fkOps,      \* SpecFork: operations done
    mtDb,       \* SpecMeta: the table of the database
    mtFork,     \* SpecMeta: the Fork indexes are opened on
    mtRecFork,  \* SpecMeta: name -> the metadata first recorded, as the Fork has it
    mtRecDb,    \* SpecMeta: name -> the metadata recorded and merged
    mtLast,     \* SpecMeta: the last open: address, type, access, record then, result
    mtCleared,  \* SpecMeta: the addresses of the indexes cleared so far
    mtOps,      \* SpecMeta: operations done
    ppA,        \* SpecPath: a ProofPath, the one the operations are applied to
    ppB,        \* SpecPath: another ProofPath
    ppBuf,      \* SpecPath: the buffer of the last write, if any
    ppLast,     \* SpecPath: the last operation: its name, argument or result, and the path before
    ppOps,      \* SpecPath: operations done
    faDb,       \* SpecFamily: the table of the database
    faFork,     \* SpecFamily: the Fork the indexes are written through
    faModel,    \* SpecFamily: address, key -> Option value, as written through the view of the address
    faMerged,   \* SpecFamily: the same at the last merge
    faOps,      \* SpecFamily: operations done
    bnRaw,      \* SpecNode: the byte image of a BranchNode
    bnLast,     \* SpecNode: the last operation: its name, arguments and the image before
    bnOps,      \* SpecNode: operations done
    nwPool,     \* SpecNet: the pool of outgoing connections: peer -> connection, 0 for none
    nwOut,      \* SpecNet: the outgoing connections opened so far
    nwEvents,   \* SpecNet: the events the sending side has sent to the node
    nwIn,       \* SpecNet: the incoming connections the listener has accepted
    nwCounter,  \* SpecNet: incoming_connections_counter of the closure of the listener
    nwLast,     \* SpecNet: the last step: its name, its arguments and what held before it
    nwHalted,   \* SpecNet: the event loop of the network part has ended
    nwReqs,     \* SpecNet: requests handled
    nwArr,      \* SpecNet: incoming connections and messages arrived
    itBuf,      \* SpecType: a buffer
    itKind,     \* SpecType: the kind the buffer was made of by to_bytes, if it was
    itResult,   \* SpecType: the result of the last from_bytes, if any
    itSeen,     \* SpecType: the results from_bytes has given so far: "ok" or the error
    itOps,      \* SpecType: operations done
    ncWire,     \* SpecCodec: bytes written by encode and not yet arrived
    ncBuf,      \* SpecCodec: the buffer decode reads, the bytes arrived and not consumed
    ncSent,     \* SpecCodec: the messages given to encode, in order
    ncGot,      \* SpecCodec: the messages returned by decode, in order
    ncLast      \* SpecCodec: the last operation and, of a decode, its outcome

mapVars == <<pmDb, pmFork, pmModel, pmFresh, pmOps, pmLast, pmLastOp>>
proofVars == <<prDb, prFork, prModel, prOps>>
dbVars == <<dbTable, dbSnaps, dbForks, dbMerged, dbLast, dbPrev, dbOps>>
forkVars == <<fkFork, fkLatest, fkCleared, fkSeen, fkBack, fkMerged, fkOps>>
metaVars == <<mtDb, mtFork, mtRecFork, mtRecDb, mtLast, mtCleared, mtOps>>
pathVars == <<ppA, ppB, ppBuf, ppLast, ppOps>>
earlyVars == <<mapVars, proofVars, dbVars, forkVars, metaVars, pathVars>>
familyVars == <<faDb, faFork, faModel, faMerged, faOps>>
nodeVars == <<bnRaw, bnLast, bnOps>>
netVars == <<nwPool, nwOut, nwEvents, nwIn, nwCounter, nwLast, nwHalted, nwReqs, nwArr>>
typeVars == <<itBuf, itKind, itResult, itSeen, itOps>>
codecVars == <<ncWire, ncBuf, ncSent, ncGot, ncLast>>
lateVars == <<familyVars, nodeVars, netVars, typeVars, codecVars>>
vars == <<earlyVars, lateVars>>

(***************************************************************************)
(* SpecMap: a ProofMapIndex on a Fork, with put, remove, clear and the      *)
(* merge of the Fork followed by a new Fork                                 *)
(***************************************************************************)
\* A key of KEY_SIZE bytes: a first byte, zero bytes, a last byte
Key(first, last) ==
    [j \in 1..KEY_SIZE |-> IF j = 1 THEN first ELSE IF j = KEY_SIZE THEN last ELSE 0]

KeyPatterns == {<<0, 0>>, <<1, 0>>, <<128, 0>>, <<0, 1>>, <<0, 128>>, <<0, 129>>}
PMKeys == {Key(kp[1], kp[2]) : kp \in KeyPatterns}
PMValues == {<<1>>, <<2>>}

PMPresent == {k \in PMKeys : pmModel[k] # << >>}

\* The keys of SpecProof
PRKeys == {Key(kp[1], kp[2]) : kp \in {<<0, 0>>, <<128, 0>>, <<0, 1>>, <<0, 129>>}}
PRPresent == {k \in PRKeys : prModel[k] # << >>}

ProofInit ==
    /\ prDb = EmptyMap
    /\ prFork = Database_fork(EmptyMap)
    /\ prModel = [k \in PRKeys |-> << >>]
    /\ prOps = 0

\* The addresses, raw keys and values of SpecDb
DbAddrs == {AddrA, AddrB}
DbKeys == {<<1>>, <<2>>}
DbValues == {<<1>>, <<2>>}

DbInit ==
    /\ dbTable = EmptyMap
    /\ dbSnaps = << >>
    /\ dbForks = << >>
    /\ dbMerged = << >>
    /\ dbLast = << >>
    /\ dbPrev = << >>
    /\ dbOps = 0

\* The tables a Fork of SpecFork is created over
ForkBases ==
    {EmptyMap,
     [pk \in {keyed(AddrA, <<1>>)} |-> <<1>>],
     [pk \in {keyed(AddrA, <<1>>), keyed(AddrA, <<2>>), keyed(AddrB, <<1>>)} |-> <<2>>]}

ForkInit ==
    /\ fkFork \in {Database_fork(t) : t \in ForkBases}
    /\ fkLatest = [a \in DbAddrs |-> [k \in DbKeys |-> << >>]]
    /\ fkCleared = [a \in DbAddrs |-> FALSE]
    /\ fkSeen = << >>
    /\ fkBack = << >>
    /\ fkMerged = << >>
    /\ fkOps = 0

\* The index types and names of SpecMeta
MetaTypes == {IndexType_Map, IndexType_List, IndexType_ProofMap}
MetaNames == {a.name : a \in MetaAddrs}

MetaInit ==
    /\ mtDb = EmptyMap
    /\ mtFork = Database_fork(EmptyMap)
    /\ mtRecFork = [n \in MetaNames |-> << >>]
    /\ mtRecDb = [n \in MetaNames |-> << >>]
    /\ mtLast = << >>
    /\ mtCleared = {}
    /\ mtOps = 0

\* The Fork of SpecFork where it is not used
ForkIdle == ForkInit /\ fkFork = Database_fork(EmptyMap)

\* The keys the paths of SpecPath are made of: all bits set; bit 3 clear;
\* the lowest bit of the last byte clear; one bit set in the last byte
PathKeys == {Key(255, 255), Key(247, 255), Key(255, 254), Key(0, 1)}

\* The numbers of bits asked of prefix and suffix, besides the whole length
PathCuts == {0, 1, 3, 8}

\* ProofPath::new over each key, for both paths
PathInit ==
    /\ ppA \in {ProofPath_new(k) : k \in PathKeys}
    /\ ppB \in {ProofPath_new(k) : k \in PathKeys}
    /\ ppBuf = << >>
    /\ ppLast = [op |-> "new", n |-> 0, from |-> ppA]
    /\ ppOps = 0

\* The paths of SpecPath where they are not used
PathIdle == PathInit /\ ppA = ProofPath_new(Key(0, 1)) /\ ppB = ppA

\* The keys and values written through the views of SpecFamily
FamilyKeys == {<<5>>, <<2, 5>>}
FamilyValues == {<<1>>, <<2>>}

FamilyInit ==
    /\ faDb = EmptyMap
    /\ faFork = Database_fork(EmptyMap)
    /\ faModel = [a \in FamilyAddrs |-> [k \in FamilyKeys |-> << >>]]
    /\ faMerged = faModel
    /\ faOps = 0

\* The paths and hashes set in the image of SpecNode: for two keys, the
\* leaf, a branch of three bits, the leaf without its first three bits, and
\* a branch of the bits 1 to 8; hashes of equal bytes and one of rising bytes
NodePathsOf(k) ==
    {ProofPath_new(k), prefix(ProofPath_new(k), 3), suffix(ProofPath_new(k), 3),
     prefix(suffix(ProofPath_new(k), 1), 8)}
NodePaths == NodePathsOf(Key(255, 255)) \cup NodePathsOf(Key(0, 1))
NodeHashes == {[j \in 1..HASH_SIZE |-> b] : b \in {0, 7}}
                  \cup {[j \in 1..HASH_SIZE |-> j]}

\* BranchNode::empty()
NodeInit ==
    /\ bnRaw = raw_empty
    /\ bnLast = [op |-> "empty", kind |-> Left, path |-> << >>, hash |-> << >>,
                 before |-> << >>]
    /\ bnOps = 0

\* What nwLast says of a step
NetStep(op, peer, conn) ==
    [op |-> op, peer |-> peer, conn |-> conn, message |-> OurConnect,
     had |-> FALSE, full |-> FALSE, opened |-> 0, events |-> 0,
     rejected |-> FALSE, open_before |-> 0]

\* NetworkPart::run: no connection yet
NetInit ==
    /\ nwPool = [p \in NetPeers |-> 0]
    /\ nwOut = << >>
    /\ nwEvents = << >>
    /\ nwIn = << >>
    /\ nwCounter = 0
    /\ nwLast = NetStep("run", "", 0)
    /\ nwHalted = FALSE
    /\ nwReqs = 0
    /\ nwArr = 0

\* The bytes and the buffers given to IndexType::from_bytes
TypeBytes == {0, 1, 8, 9, 127}
TypeBuffers == UNION {[1..n -> TypeBytes] : n \in 0..MaxTypeBuffer}

TypeInit ==
    /\ itBuf = << >>
    /\ itKind = << >>
    /\ itResult = << >>
    /\ itSeen = {}
    /\ itOps = 0

\* What SpecCodec records of an operation
CodecStep(op, before, outcome, consumed) ==
    [op |-> op, before |-> before, outcome |-> outcome, consumed |-> consumed]

CodecInit ==
    /\ ncWire = << >>
    /\ ncBuf = << >>
    /\ ncSent = << >>
    /\ ncGot = << >>
    /\ ncLast = CodecStep("new", << >>, "", 0)

\* The state of the specifications that are not running
LateIdle == FamilyInit /\ NodeInit /\ NetInit /\ TypeInit /\ CodecInit

MapOnly == UNCHANGED <<proofVars, dbVars, forkVars, metaVars, pathVars, lateVars>>

MapInit ==
    /\ pmDb = EmptyMap
    /\ pmFork = Database_fork(EmptyMap)
    /\ pmModel = [k \in PMKeys |-> << >>]
    /\ pmFresh = TRUE
    /\ pmOps = 0
    /\ pmLast = << >>
    /\ pmLastOp = "new"

\* The state after construction: an empty database with a fresh Fork for each
\* group of variables
Init == MapInit /\ ProofInit /\ DbInit /\ ForkIdle /\ MetaInit /\ PathIdle /\ LateIdle

\* The same, with the Fork of SpecFork over any of its tables
InitOverBases == MapInit /\ ProofInit /\ DbInit /\ ForkInit /\ MetaInit /\ PathIdle /\ LateIdle

\* The same, with the paths of SpecPath made of any of its keys
InitOverKeys == MapInit /\ ProofInit /\ DbInit /\ ForkIdle /\ MetaInit /\ PathInit /\ LateIdle

PMPut(k, v) ==
    /\ pmOps < MaxMapOps
    /\ k \in PMPresent \/ Cardinality(PMPresent) < MaxEntries
    /\ pmFork' = ProofMap_put(pmFork, PMAddr, k, v)
    /\ pmModel' = [pmModel EXCEPT ![k] = <<v>>]
    /\ pmFresh' = (pmFresh /\ k \notin PMPresent)
    /\ pmOps' = pmOps + 1
    /\ pmLast' = k
    /\ pmLastOp' = "put"
    /\ UNCHANGED pmDb
    /\ MapOnly

PMRemove(k) ==
    /\ pmOps < MaxMapOps
    /\ pmFork' = ProofMap_remove(pmFork, PMAddr, k)
    /\ pmModel' = [pmModel EXCEPT ![k] = << >>]
    /\ pmFresh' = FALSE
    /\ pmOps' = pmOps + 1
    /\ pmLast' = k
    /\ pmLastOp' = IF k \in PMPresent THEN "remove" ELSE "remove_absent"
    /\ UNCHANGED pmDb
    /\ MapOnly

PMClear ==
    /\ pmOps < MaxMapOps
    /\ pmFork' = ProofMap_clear(pmFork, PMAddr)
    /\ pmModel' = [k \in PMKeys |-> << >>]
    /\ pmFresh' = TRUE
    /\ pmOps' = pmOps + 1
    /\ pmLast' = << >>
    /\ pmLastOp' = "clear"
    /\ UNCHANGED pmDb
    /\ MapOnly

\* db.merge(fork.into_patch()) and then db.fork()
PMMerge ==
    /\ pmOps < MaxMapOps
    /\ LET r == RocksDB_merge(pmDb, into_patch(pmFork), MergeOk)
       IN  /\ pmDb' = r.db
           /\ pmFork' = Database_fork(r.db)
    /\ pmOps' = pmOps + 1
    /\ pmLastOp' = "merge"
    /\ UNCHANGED <<pmModel, pmFresh, pmLast>>
    /\ MapOnly

MapNext ==
    \/ \E k \in PMKeys, v \in PMValues : PMPut(k, v)
    \/ \E k \in PMKeys : PMRemove(k)
    \/ PMClear
    \/ PMMerge

SpecMap == Init /\ [][MapNext]_vars

(***************************************************************************)
(* SpecProof: the ProofMapIndex whose proofs are requested, with put,       *)
(* remove and the merge of the Fork followed by a new Fork                  *)
(***************************************************************************)
ProofOnly == UNCHANGED <<mapVars, dbVars, forkVars, metaVars, pathVars, lateVars>>

PRPut(k, v) ==
    /\ prOps < MaxProofOps
    /\ k \in PRPresent \/ Cardinality(PRPresent) < MaxEntries
    /\ prFork' = ProofMap_put(prFork, PMAddr, k, v)
    /\ prModel' = [prModel EXCEPT ![k] = <<v>>]
    /\ prOps' = prOps + 1
    /\ UNCHANGED prDb
    /\ ProofOnly

PRRemove(k) ==
    /\ prOps < MaxProofOps
    /\ prFork' = ProofMap_remove(prFork, PMAddr, k)
    /\ prModel' = [prModel EXCEPT ![k] = << >>]
    /\ prOps' = prOps + 1
    /\ UNCHANGED prDb
    /\ ProofOnly

\* db.merge(fork.into_patch()) and then db.fork()
PRMerge ==
    /\ prOps < MaxProofOps
    /\ LET r == RocksDB_merge(prDb, into_patch(prFork), MergeOk)
       IN  /\ prDb' = r.db
           /\ prFork' = Database_fork(r.db)
    /\ prOps' = prOps + 1
    /\ UNCHANGED prModel
    /\ ProofOnly

ProofNext ==
    \/ \E k \in PRKeys, v \in PMValues : PRPut(k, v)
    \/ \E k \in PRKeys : PRRemove(k)
    \/ PRMerge

SpecProof == Init /\ [][ProofNext]_vars

(***************************************************************************)
(* SpecDb: one database with Snapshots, Forks that record changes, and      *)
(* merges that succeed or fail                                              *)
(***************************************************************************)
DbOnly == UNCHANGED <<mapVars, proofVars, forkVars, metaVars, pathVars, lateVars>>

\* Every read of a Snapshot through the views of the model: get and contains
\* of every key and the iteration of every view
SnapshotReads(snap, database) ==
    LET access == SnapshotAccess(snap, database)
    IN  [get |-> [a \in DbAddrs |-> [k \in DbKeys |-> get_bytes(access, a, k)]],
         contains |-> [a \in DbAddrs |->
                          [k \in DbKeys |-> contains_raw_key(access, a, k)]],
         iter |-> [a \in DbAddrs |-> View_iter(access, a, << >>)]]

\* db.snapshot()
DbSnapshot ==
    /\ Len(dbSnaps) < MaxSnapshots
    /\ LET snap == RocksDB_snapshot(dbTable)
       IN  dbSnaps' = Append(dbSnaps, [snap |-> snap,
                                       epoch |-> Len(dbMerged),
                                       seen |-> SnapshotReads(snap, dbTable)])
    /\ UNCHANGED <<dbTable, dbForks, dbMerged, dbLast, dbPrev, dbOps>>
    /\ DbOnly

\* db.fork()
DbFork ==
    /\ Len(dbForks) < MaxForks
    /\ dbForks' = Append(dbForks, [f |-> Database_fork(dbTable),
                                    epoch |-> Len(dbMerged),
                                    base |-> dbTable])
    /\ UNCHANGED <<dbTable, dbSnaps, dbMerged, dbLast, dbPrev, dbOps>>
    /\ DbOnly

DbPut(j, a, k, v) ==
    /\ dbOps < MaxDbOps
    /\ dbForks' = [dbForks EXCEPT ![j].f = View_put(@, a, k, v)]
    /\ dbOps' = dbOps + 1
    /\ UNCHANGED <<dbTable, dbSnaps, dbMerged, dbLast, dbPrev>>
    /\ DbOnly

DbRemove(j, a, k) ==
    /\ dbOps < MaxDbOps
    /\ dbForks' = [dbForks EXCEPT ![j].f = View_remove(@, a, k)]
    /\ dbOps' = dbOps + 1
    /\ UNCHANGED <<dbTable, dbSnaps, dbMerged, dbLast, dbPrev>>
    /\ DbOnly

DbClear(j, a) ==
    /\ dbOps < MaxDbOps
    /\ dbForks' = [dbForks EXCEPT ![j].f = View_clear(@, a)]
    /\ dbOps' = dbOps + 1
    /\ UNCHANGED <<dbTable, dbSnaps, dbMerged, dbLast, dbPrev>>
    /\ DbOnly

\* db.merge(fork.into_patch()): the Fork is consumed
DbMerge(j, outcome) ==
    /\ Len(dbMerged) < MaxMerges
    /\ LET patch == into_patch(dbForks[j].f)
           r == RocksDB_merge(dbTable, patch, outcome)
       IN  /\ dbTable' = r.db
           /\ dbLast' = <<[before |-> dbTable, patch |-> patch, ok |-> r.ok,
                           epoch |-> dbForks[j].epoch]>>
           /\ dbPrev' = IF /\ r.ok
                           /\ dbLast # << >>
                           /\ dbLast[1].ok
                           /\ dbLast[1].epoch = dbForks[j].epoch
                        THEN dbLast ELSE << >>
           /\ dbMerged' = IF r.ok THEN Append(dbMerged, patch) ELSE dbMerged
    /\ dbForks' = [i \in 1..(Len(dbForks) - 1) |->
                      IF i < j THEN dbForks[i] ELSE dbForks[i + 1]]
    /\ UNCHANGED <<dbSnaps, dbOps>>
    /\ DbOnly

DbNext ==
    \/ DbSnapshot
    \/ DbFork
    \/ \E j \in DOMAIN dbForks, a \in DbAddrs, k \in DbKeys, v \in DbValues :
          DbPut(j, a, k, v)
    \/ \E j \in DOMAIN dbForks, a \in DbAddrs, k \in DbKeys : DbRemove(j, a, k)
    \/ \E j \in DOMAIN dbForks, a \in DbAddrs : DbClear(j, a)
    \/ \E j \in DOMAIN dbForks, outcome \in MergeOutcomes : DbMerge(j, outcome)

SpecDb == Init /\ [][DbNext]_vars


(***************************************************************************)
(* SpecFork: one Fork over a table, with put, remove and clear on its       *)
(* views and checkpoint, rollback and commit_checkpoint                     *)
(***************************************************************************)
ForkOnly == UNCHANGED <<mapVars, proofVars, dbVars, metaVars, pathVars, lateVars>>

\* Every read of an access through its views: get and contains of every key
\* and the iteration of every view
ForkReads(access) ==
    [get |-> [a \in DbAddrs |-> [k \in DbKeys |-> get_bytes(access, a, k)]],
     contains |-> [a \in DbAddrs |->
                      [k \in DbKeys |-> contains_raw_key(access, a, k)]],
     iter |-> [a \in DbAddrs |-> View_iter(access, a, << >>)]]

FkPut(a, k, v) ==
    /\ fkOps < MaxForkOps
    /\ fkFork' = View_put(fkFork, a, k, v)
    /\ fkLatest' = [fkLatest EXCEPT ![a][k] = <<Put(v)>>]
    /\ fkBack' = << >>
    /\ fkOps' = fkOps + 1
    /\ UNCHANGED <<fkCleared, fkSeen, fkMerged>>
    /\ ForkOnly

FkRemove(a, k) ==
    /\ fkOps < MaxForkOps
    /\ fkFork' = View_remove(fkFork, a, k)
    /\ fkLatest' = [fkLatest EXCEPT ![a][k] = <<Delete>>]
    /\ fkBack' = << >>
    /\ fkOps' = fkOps + 1
    /\ UNCHANGED <<fkCleared, fkSeen, fkMerged>>
    /\ ForkOnly

FkClear(a) ==
    /\ fkOps < MaxForkOps
    /\ fkFork' = View_clear(fkFork, a)
    /\ fkLatest' = [fkLatest EXCEPT ![a] = [k \in DbKeys |-> << >>]]
    /\ fkCleared' = [fkCleared EXCEPT ![a] = TRUE]
    /\ fkBack' = << >>
    /\ fkOps' = fkOps + 1
    /\ UNCHANGED <<fkSeen, fkMerged>>
    /\ ForkOnly

FkCheckpoint ==
    /\ fkOps < MaxForkOps
    /\ Len(fkFork.savepoints) < MaxSavepoints
    /\ fkFork' = Fork_checkpoint(fkFork)
    /\ fkSeen' = Append(fkSeen, [reads |-> ForkReads(fkFork),
                                 latest |-> fkLatest, cleared |-> fkCleared])
    /\ fkBack' = << >>
    /\ fkOps' = fkOps + 1
    /\ UNCHANGED <<fkLatest, fkCleared, fkMerged>>
    /\ ForkOnly

FkRollback ==
    /\ fkOps < MaxForkOps
    /\ fkFork.savepoints # << >>
    /\ fkFork' = Fork_rollback(fkFork)
    /\ fkLatest' = fkSeen[Len(fkSeen)].latest
    /\ fkCleared' = fkSeen[Len(fkSeen)].cleared
    /\ fkBack' = <<[reads |-> fkSeen[Len(fkSeen)].reads,
                     undone |-> ForkReads(fkFork)]>>
    /\ fkSeen' = SubSeq(fkSeen, 1, Len(fkSeen) - 1)
    /\ fkOps' = fkOps + 1
    /\ UNCHANGED fkMerged
    /\ ForkOnly

FkCommitCheckpoint ==
    /\ fkOps < MaxForkOps
    /\ fkFork.savepoints # << >>
    /\ fkFork' = Fork_commit_checkpoint(fkFork)
    /\ fkSeen' = SubSeq(fkSeen, 1, Len(fkSeen) - 1)
    /\ fkBack' = << >>
    /\ fkOps' = fkOps + 1
    /\ UNCHANGED <<fkLatest, fkCleared, fkMerged>>
    /\ ForkOnly

\* db.merge(fork.into_patch()) of a Fork without savepoints, followed by a
\* new Fork of the database
FkMerge ==
    /\ fkOps < MaxForkOps
    /\ fkFork.savepoints = << >>
    /\ LET r == RocksDB_merge(fkFork.snapshot, into_patch(fkFork), MergeOk)
       IN  /\ fkMerged' = <<[cleared |-> fkCleared, latest |-> fkLatest,
                              before |-> fkFork.snapshot, after |-> r.db]>>
           /\ fkFork' = Database_fork(r.db)
    /\ fkLatest' = [a \in DbAddrs |-> [k \in DbKeys |-> << >>]]
    /\ fkCleared' = [a \in DbAddrs |-> FALSE]
    /\ fkSeen' = << >>
    /\ fkBack' = << >>
    /\ fkOps' = fkOps + 1
    /\ ForkOnly

ForkNext ==
    \/ \E a \in DbAddrs, k \in DbKeys, v \in DbValues : FkPut(a, k, v)
    \/ \E a \in DbAddrs, k \in DbKeys : FkRemove(a, k)
    \/ \E a \in DbAddrs : FkClear(a)
    \/ FkCheckpoint
    \/ FkRollback
    \/ FkCommitCheckpoint
    \/ FkMerge

SpecFork == InitOverBases /\ [][ForkNext]_vars

(***************************************************************************)
(* SpecMeta: indexes opened through IndexBuilder on a Fork and on Snapshots *)
(* of the database, and the merge of the Fork followed by a new Fork.  A    *)
(* panic is fatal: nothing happens after it.                                *)
(***************************************************************************)
MetaOnly == UNCHANGED <<mapVars, proofVars, dbVars, forkVars, pathVars, lateVars>>

Panicked == mtLast # << >> /\ mtLast[1].panic

\* IndexBuilder::new(&fork).index_name(..).family_id(..).index_type(..).build()
MtOpenFork(address, index_type) ==
    /\ ~Panicked
    /\ mtOps < MaxMetaOps
    /\ LET r == IndexBuilder_build(mtFork, address, index_type)
       IN  /\ mtFork' = r.acc
           /\ mtLast' = <<[address |-> address, index_type |-> index_type,
                           fork |-> TRUE, recorded |-> mtRecFork[address.name],
                           cleared |-> FALSE, panic |-> r.panic]>>
           /\ mtRecFork' =
                  IF ~r.panic /\ mtRecFork[address.name] = << >>
                  THEN [mtRecFork EXCEPT ![address.name] =
                            <<IndexMetadata(index_type, address.bytes # << >>)>>]
                  ELSE mtRecFork
    /\ mtOps' = mtOps + 1
    /\ UNCHANGED <<mtDb, mtRecDb, mtCleared>>
    /\ MetaOnly

\* The same on db.snapshot()
MtOpenSnapshot(address, index_type) ==
    /\ ~Panicked
    /\ mtOps < MaxMetaOps
    /\ LET access == SnapshotAccess(RocksDB_snapshot(mtDb), mtDb)
           r == IndexBuilder_build(access, address, index_type)
       IN  mtLast' = <<[address |-> address, index_type |-> index_type,
                        fork |-> FALSE, recorded |-> mtRecDb[address.name],
                        cleared |-> FALSE, panic |-> r.panic]>>
    /\ mtOps' = mtOps + 1
    /\ UNCHANGED <<mtDb, mtFork, mtRecFork, mtRecDb, mtCleared>>
    /\ MetaOnly

\* The index built on the Fork as above, and clear() on its view
MtClear(address, index_type) ==
    /\ ~Panicked
    /\ mtOps < MaxMetaOps
    /\ LET r == IndexBuilder_build(mtFork, address, index_type)
       IN  /\ mtFork' = IF r.panic THEN r.acc ELSE View_clear(r.acc, address)
           /\ mtLast' = <<[address |-> address, index_type |-> index_type,
                           fork |-> TRUE, recorded |-> mtRecFork[address.name],
                           cleared |-> ~r.panic, panic |-> r.panic]>>
           /\ mtRecFork' =
                  IF ~r.panic /\ mtRecFork[address.name] = << >>
                  THEN [mtRecFork EXCEPT ![address.name] =
                            <<IndexMetadata(index_type, address.bytes # << >>)>>]
                  ELSE mtRecFork
           /\ mtCleared' = IF r.panic THEN mtCleared ELSE mtCleared \cup {address}
    /\ mtOps' = mtOps + 1
    /\ UNCHANGED <<mtDb, mtRecDb>>
    /\ MetaOnly

\* db.merge(fork.into_patch()) and then db.fork()
MtMerge ==
    /\ ~Panicked
    /\ mtOps < MaxMetaOps
    /\ LET r == RocksDB_merge(mtDb, into_patch(mtFork), MergeOk)
       IN  /\ mtDb' = r.db
           /\ mtFork' = Database_fork(r.db)
    /\ mtRecDb' = mtRecFork
    /\ mtLast' = << >>
    /\ mtOps' = mtOps + 1
    /\ UNCHANGED <<mtRecFork, mtCleared>>
    /\ MetaOnly

MetaNext ==
    \/ \E a \in MetaAddrs, t \in MetaTypes : MtOpenFork(a, t)
    \/ \E a \in MetaAddrs, t \in MetaTypes : MtOpenSnapshot(a, t)
    \/ \E a \in MetaAddrs, t \in MetaTypes : MtClear(a, t)
    \/ MtMerge

SpecMeta ==
    Init /\ [][MetaNext]_vars

(***************************************************************************)
(* SpecPath: two ProofPaths made of keys, shortened by prefix and suffix,   *)
(* written to a buffer and read back, and compared by common_prefix         *)
(***************************************************************************)
PathOnly == UNCHANGED <<mapVars, proofVars, dbVars, forkVars, metaVars, lateVars>>

\* The numbers of bits that can be asked of the path: the cuts that fit
\* and its whole length
PathArgs == {n \in PathCuts \cup {len(ppA)} : n <= len(ppA)}

\* ppA = ppA.prefix(n)
PPPrefix(n) ==
    /\ ppOps < MaxPathOps
    /\ ppA' = prefix(ppA, n)
    /\ ppLast' = [op |-> "prefix", n |-> n, from |-> ppA]
    /\ ppOps' = ppOps + 1
    /\ UNCHANGED <<ppB, ppBuf>>
    /\ PathOnly

\* ppA = ppA.suffix(n)
PPSuffix(n) ==
    /\ ppOps < MaxPathOps
    /\ ppA' = suffix(ppA, n)
    /\ ppLast' = [op |-> "suffix", n |-> n, from |-> ppA]
    /\ ppOps' = ppOps + 1
    /\ UNCHANGED <<ppB, ppBuf>>
    /\ PathOnly

\* ppA.write(buf); ppA = ProofPath::read(buf) with the start set again, as
\* the test of the storage key of a branch does
PPStore ==
    /\ ppOps < MaxPathOps
    /\ ppBuf' = write(ppA)
    /\ ppA' = start_from(read(write(ppA)), start(ppA))
    /\ ppLast' = [op |-> "store", n |-> 0, from |-> ppA]
    /\ ppOps' = ppOps + 1
    /\ UNCHANGED ppB
    /\ PathOnly

\* ppA.common_prefix(&ppB)
PPCommon ==
    /\ ppOps < MaxPathOps
    /\ ppLast' = [op |-> "common_prefix", n |-> common_prefix(ppA, ppB), from |-> ppA]
    /\ ppOps' = ppOps + 1
    /\ UNCHANGED <<ppA, ppB, ppBuf>>
    /\ PathOnly

\* The two paths change places
PPSwap ==
    /\ ppOps < MaxPathOps
    /\ ppA' = ppB
    /\ ppB' = ppA
    /\ ppLast' = [op |-> "swap", n |-> 0, from |-> ppA]
    /\ ppOps' = ppOps + 1
    /\ UNCHANGED ppBuf
    /\ PathOnly

PathNext ==
    \/ \E n \in PathArgs : PPPrefix(n)
    \/ \E n \in PathArgs : PPSuffix(n)
    \/ PPStore
    \/ PPCommon
    \/ PPSwap

SpecPath ==
    InitOverKeys /\ [][PathNext]_vars

(***************************************************************************)
(* SpecFamily: the members of index families opened through IndexBuilder  *)
(* on one Fork and written through their views, and the merge of the Fork  *)
(* followed by a new Fork                                                   *)
(***************************************************************************)
FamilyOnly == UNCHANGED <<earlyVars, nodeVars, netVars, typeVars, codecVars>>

\* IndexBuilder::new(&fork).index_name(..).family_id(..).build() and put on
\* the view; all the indexes are of one type, so that no build panics
FAPut(address, key, value) ==
    /\ faOps < MaxFamilyOps
    /\ faFork' = View_put(IndexBuilder_build(faFork, address, IndexType_Map).acc,
                          address, key, value)
    /\ faModel' = [faModel EXCEPT ![address][key] = <<value>>]
    /\ faOps' = faOps + 1
    /\ UNCHANGED <<faDb, faMerged>>
    /\ FamilyOnly

\* The same with remove on the view
FARemove(address, key) ==
    /\ faOps < MaxFamilyOps
    /\ faFork' = View_remove(IndexBuilder_build(faFork, address, IndexType_Map).acc,
                             address, key)
    /\ faModel' = [faModel EXCEPT ![address][key] = << >>]
    /\ faOps' = faOps + 1
    /\ UNCHANGED <<faDb, faMerged>>
    /\ FamilyOnly

\* db.merge(fork.into_patch()) and then db.fork()
FAMerge ==
    /\ faOps < MaxFamilyOps
    /\ LET r == RocksDB_merge(faDb, into_patch(faFork), MergeOk)
       IN  /\ faDb' = r.db
           /\ faFork' = Database_fork(r.db)
    /\ faMerged' = faModel
    /\ faOps' = faOps + 1
    /\ UNCHANGED faModel
    /\ FamilyOnly

FamilyNext ==
    \/ \E a \in FamilyAddrs, k \in FamilyKeys, v \in FamilyValues : FAPut(a, k, v)
    \/ \E a \in FamilyAddrs, k \in FamilyKeys : FARemove(a, k)
    \/ FAMerge

SpecFamily ==
    Init /\ [][FamilyNext]_vars

(***************************************************************************)
(* SpecNode: one BranchNode, empty at first, whose slots are set           *)
(***************************************************************************)
NodeOnly == UNCHANGED <<earlyVars, familyVars, netVars, typeVars, codecVars>>

\* branch.set_child(kind, &path, &hash)
BNSetChild(kind, path, hash) ==
    /\ bnOps < MaxNodeOps
    /\ bnRaw' = raw_set_child(bnRaw, kind, path, hash)
    /\ bnLast' = [op |-> "set_child", kind |-> kind, path |-> <<path>>,
                  hash |-> <<hash>>, before |-> <<bnRaw>>]
    /\ bnOps' = bnOps + 1
    /\ NodeOnly

\* branch.set_child_hash(kind, &hash)
BNSetChildHash(kind, hash) ==
    /\ bnOps < MaxNodeOps
    /\ bnRaw' = raw_set_child_hash(bnRaw, kind, hash)
    /\ bnLast' = [op |-> "set_child_hash", kind |-> kind, path |-> << >>,
                  hash |-> <<hash>>, before |-> <<bnRaw>>]
    /\ bnOps' = bnOps + 1
    /\ NodeOnly

\* branch.set_child_path(kind, &path)
BNSetChildPath(kind, path) ==
    /\ bnOps < MaxNodeOps
    /\ bnRaw' = raw_set_child_path(bnRaw, kind, path)
    /\ bnLast' = [op |-> "set_child_path", kind |-> kind, path |-> <<path>>,
                  hash |-> << >>, before |-> <<bnRaw>>]
    /\ bnOps' = bnOps + 1
    /\ NodeOnly

NodeNext ==
    \/ \E kind \in {Left, Right}, path \in NodePaths, hash \in NodeHashes :
          BNSetChild(kind, path, hash)
    \/ \E kind \in {Left, Right}, hash \in NodeHashes : BNSetChildHash(kind, hash)
    \/ \E kind \in {Left, Right}, path \in NodePaths : BNSetChildPath(kind, path)

SpecNode ==
    Init /\ [][NodeNext]_vars

(***************************************************************************)
(* SpecNet: the network part of one node.  Its RequestHandler handles the   *)
(* requests one after another; the futures of its outgoing connections and  *)
(* the handlers of the incoming connections of its Listener run in between, *)
(* in any order.  An outgoing connection reaches the listener of its peer,  *)
(* which runs the same handler; incoming connections come from remote       *)
(* nodes that send any message first.  The channel of a connection holds    *)
(* fewer messages than OUTGOING_CHANNEL_SIZE in every behaviour here.       *)
(***************************************************************************)
NetOnly == UNCHANGED <<earlyVars, familyVars, nodeVars, typeVars, codecVars>>

\* The sending side as one record
NetSide == [pool |-> nwPool, out |-> nwOut, events |-> nwEvents]

\* The number of incoming connections whose handler has not finished
OpenIncoming == Cardinality({c \in DOMAIN nwIn : nwIn[c].open})

\* NetworkRequest::SendMessage(peer, message)
NwSendMessage(peer, message) ==
    /\ ~nwHalted
    /\ nwReqs < MaxRequests
    /\ LET r == handle_send_message(NetSide, peer, message)
       IN  /\ nwPool' = r.pool
           /\ nwOut' = r.out
           /\ nwEvents' = r.events
    /\ nwLast' = [NetStep("send", peer, nwPool[peer]) EXCEPT
                     !.message = message,
                     !.had = (nwPool[peer] # 0),
                     !.full = (ConnectionsPool_len(nwPool) >= max_outgoing_connections),
                     !.opened = Len(nwOut),
                     !.events = Len(nwEvents)]
    /\ nwReqs' = nwReqs + 1
    /\ UNCHANGED <<nwIn, nwCounter, nwHalted, nwArr>>
    /\ NetOnly

\* NetworkRequest::DisconnectWithPeer(peer): an error of disconnect_with_peer
\* ends the stream of requests and with it the network part
NwDisconnectWithPeer(peer) ==
    /\ ~nwHalted
    /\ nwReqs < MaxRequests
    /\ LET r == disconnect_with_peer(NetSide, peer)
       IN  /\ nwPool' = r.n.pool
           /\ nwOut' = r.n.out
           /\ nwEvents' = r.n.events
           /\ nwHalted' = ~r.ok
    /\ nwLast' = [NetStep("disconnect", peer, nwPool[peer]) EXCEPT
                     !.had = (nwPool[peer] # 0),
                     !.events = Len(nwEvents)]
    /\ nwReqs' = nwReqs + 1
    /\ UNCHANGED <<nwIn, nwCounter, nwArr>>
    /\ NetOnly

\* NetworkRequest::Shutdown
NwShutdown ==
    /\ ~nwHalted
    /\ nwReqs < MaxRequests
    /\ nwHalted' = TRUE
    /\ nwLast' = NetStep("shutdown", "", 0)
    /\ nwReqs' = nwReqs + 1
    /\ UNCHANGED <<nwPool, nwOut, nwEvents, nwIn, nwCounter, nwArr>>
    /\ NetOnly

\* The connect and the handshake of an outgoing connection succeed
NwEstablish(c) ==
    /\ ~nwHalted
    /\ nwOut[c].phase = "connecting"
    /\ nwOut' = [nwOut EXCEPT ![c].phase = "established"]
    /\ nwLast' = NetStep("establish", nwOut[c].peer, c)
    /\ UNCHANGED <<nwPool, nwEvents, nwIn, nwCounter, nwHalted, nwReqs, nwArr>>
    /\ NetOnly

\* process_outgoing_messages forwards the next message of the channel into
\* the socket, and the handler of the listener of the peer takes it
NwForward(c) ==
    /\ ~nwHalted
    /\ nwOut[c].phase = "established"
    /\ nwOut[c].queue # << >>
    /\ nwOut' = [nwOut EXCEPT
                    ![c].queue = Tail(@),
                    ![c].handler = handle_incoming_message(@, Head(nwOut[c].queue))]
    /\ nwLast' = NetStep("forward", nwOut[c].peer, c)
    /\ UNCHANGED <<nwPool, nwEvents, nwIn, nwCounter, nwHalted, nwReqs, nwArr>>
    /\ NetOnly

\* The future of an outgoing connection ends: the retries of the connect are
\* exhausted or the handshake fails (while connecting), the socket is closed
\* or the channel is closed and empty (once established); then
\* disconnect_with_peer(peer), whose error is logged
NwConnectionEnds(c) ==
    /\ ~nwHalted
    /\ nwOut[c].phase \in {"connecting", "established"}
    /\ LET ended == [NetSide EXCEPT !.out[c].phase = "ended", !.out[c].queue = << >>]
           r == disconnect_with_peer(ended, nwOut[c].peer)
       IN  /\ nwPool' = r.n.pool
           /\ nwOut' = r.n.out
           /\ nwEvents' = r.n.events
    /\ nwLast' = [NetStep("end", nwOut[c].peer, c) EXCEPT
                     !.had = (nwPool[nwOut[c].peer] # 0),
                     !.events = Len(nwEvents)]
    /\ UNCHANGED <<nwIn, nwCounter, nwHalted, nwReqs, nwArr>>
    /\ NetOnly

\* The closure of Listener::bind for an incoming connection: the counter goes
\* up, the connection is rejected when the counter is above the limit, and
\* otherwise its handler is spawned with the counter moved into its closure:
\* the counter is an integer, so the closure holds a copy of it
NwIncoming ==
    /\ ~nwHalted
    /\ nwArr < MaxArrivals
    /\ nwCounter' = nwCounter + 1
    /\ nwIn' = IF nwCounter + 1 > max_incoming_connections THEN nwIn
               ELSE Append(nwIn, [handler |-> NewHandler, open |-> TRUE,
                                  counter |-> nwCounter + 1])
    /\ nwLast' = [NetStep("incoming", "", 0) EXCEPT
                     !.rejected = (nwCounter + 1 > max_incoming_connections),
                     !.open_before = OpenIncoming]
    /\ nwArr' = nwArr + 1
    /\ UNCHANGED <<nwPool, nwOut, nwEvents, nwHalted, nwReqs>>
    /\ NetOnly

\* A message arrives on an incoming connection; when the handler ends with
\* an error, its closure takes one off the counter it holds
NwReceive(c, raw) ==
    /\ ~nwHalted
    /\ nwArr < MaxArrivals
    /\ nwIn[c].open
    /\ LET h == handle_incoming_message(nwIn[c].handler, raw)
       IN  nwIn' = [nwIn EXCEPT
                       ![c].handler = h,
                       ![c].open = (h.rstate # "failed"),
                       ![c].counter = IF h.rstate = "failed" THEN @ - 1 ELSE @]
    /\ nwLast' = NetStep("receive", "", c)
    /\ nwArr' = nwArr + 1
    /\ UNCHANGED <<nwPool, nwOut, nwEvents, nwCounter, nwHalted, nwReqs>>
    /\ NetOnly

\* The handshake of an incoming connection fails or its socket is closed:
\* the handler finishes and its closure takes one off the counter it holds
NwIncomingEnds(c) ==
    /\ ~nwHalted
    /\ nwIn[c].open
    /\ nwIn' = [nwIn EXCEPT ![c].open = FALSE, ![c].counter = @ - 1]
    /\ nwLast' = NetStep("closed", "", c)
    /\ UNCHANGED <<nwPool, nwOut, nwEvents, nwCounter, nwHalted, nwReqs, nwArr>>
    /\ NetOnly

NetNext ==
    \/ \E peer \in NetPeers, message \in NetMessages : NwSendMessage(peer, message)
    \/ \E peer \in NetPeers : NwDisconnectWithPeer(peer)
    \/ NwShutdown
    \/ \E c \in DOMAIN nwOut : NwEstablish(c)
    \/ \E c \in DOMAIN nwOut : NwForward(c)
    \/ \E c \in DOMAIN nwOut : NwConnectionEnds(c)
    \/ NwIncoming
    \/ \E c \in DOMAIN nwIn, raw \in NetMessages : NwReceive(c, raw)
    \/ \E c \in DOMAIN nwIn : NwIncomingEnds(c)

SpecNet ==
    Init /\ [][NetNext]_vars

(***************************************************************************)
(* NoiseCodec (events/noise/noise_codec.rs): frames of a 4-byte            *)
(* little-endian length and the chunks written by the session              *)
(***************************************************************************)
\* LittleEndian::read_u32 of the first four bytes, LittleEndian::write_u32
read_u32(buf) == buf[1] + 256 * buf[2] + 65536 * buf[3] + 16777216 * buf[4]
write_u32(n) ==
    <<n % 256, (n \div 256) % 256, (n \div 65536) % 256, (n \div 16777216) % 256>>

\* The session: write gives the bytes of a chunk enciphered and followed by
\* a tag of TAGLEN bytes, read takes the tag off and deciphers
TAGLEN == TagBytes
RECURSIVE SumBytes(_)
SumBytes(bytes) == IF bytes = << >> THEN 0 ELSE (Head(bytes) + SumBytes(Tail(bytes))) % 256
Session_write(chunk) ==
    [i \in 1..Len(chunk) |-> (chunk[i] + 85) % 256]
        \o [i \in 1..TAGLEN |-> SumBytes(chunk)]
Session_read(chunk) ==
    [i \in 1..(Len(chunk) - TAGLEN) |-> (chunk[i] + 171) % 256]

\* The messages: a header of ten bytes with the length of the message at
\* 6..10, and the body
CodecMessages ==
    {<<0, 0, 1, 0, 0, 0, 10, 0, 0, 0>>, <<0, 0, 2, 0, 0, 0, 11, 0, 0, 0, 7>>}

\* Encoder::encode: the bytes put at the end of buf
NoiseCodec_encode(msg) ==
    write_u32(Len(Session_write(msg))) \o Session_write(msg)

\* The rest of Decoder::decode once the length n is read and is not above
\* the length of the buffer: split_to(n + 4), the session, the message
decode_frame(buf, n) ==
    IF n + 4 > Len(buf) \/ n < TAGLEN
    THEN [outcome |-> "panic", item |-> << >>, rest |-> buf]
    ELSE IF Len(Session_read(SubSeq(buf, 5, n + 4))) < 10
    THEN [outcome |-> "panic", item |-> << >>, rest |-> SubSeq(buf, n + 5, Len(buf))]
    ELSE IF read_u32(SubSeq(Session_read(SubSeq(buf, 5, n + 4)), 7, 10))
                > Len(Session_read(SubSeq(buf, 5, n + 4)))
    THEN [outcome |-> "panic", item |-> << >>, rest |-> SubSeq(buf, n + 5, Len(buf))]
    ELSE [outcome |-> "some",
          item |-> SubSeq(Session_read(SubSeq(buf, 5, n + 4)), 1,
                          read_u32(SubSeq(Session_read(SubSeq(buf, 5, n + 4)), 7, 10))),
          rest |-> SubSeq(buf, n + 5, Len(buf))]

\* Decoder::decode: Ok(None), Ok(Some(item)) or a panic, and the buffer left
NoiseCodec_decode(buf) ==
    IF Len(buf) < 2
    THEN [outcome |-> "none", item |-> << >>, rest |-> buf]
    ELSE IF Len(buf) < 4
    THEN [outcome |-> "panic", item |-> << >>, rest |-> buf]
    ELSE IF read_u32(buf) > Len(buf)
    THEN [outcome |-> "none", item |-> << >>, rest |-> buf]
    ELSE decode_frame(buf, read_u32(buf))

(***************************************************************************)
(* SpecCodec: messages encoded at one end of a connection, their bytes     *)
(* arriving in pieces at the other, and decode called on what has arrived  *)
(***************************************************************************)
CodecOnly == UNCHANGED <<earlyVars, familyVars, nodeVars, netVars, typeVars>>

\* A panic of decode ends the task of the connection
CodecRuns == ncLast.outcome # "panic"

\* codec.encode(msg, buf) at the sending end
NCEncode(msg) ==
    /\ CodecRuns
    /\ Len(ncSent) < MaxFrames
    /\ ncWire' = ncWire \o NoiseCodec_encode(msg)
    /\ ncSent' = Append(ncSent, msg)
    /\ ncLast' = CodecStep("encode", ncBuf, "", 0)
    /\ UNCHANGED <<ncBuf, ncGot>>
    /\ CodecOnly

\* The socket reads n more bytes into the buffer
NCArrive(n) ==
    /\ CodecRuns
    /\ n \in 1..Len(ncWire)
    /\ ncBuf' = ncBuf \o SubSeq(ncWire, 1, n)
    /\ ncWire' = SubSeq(ncWire, n + 1, Len(ncWire))
    /\ ncLast' = CodecStep("arrive", ncBuf, "", 0)
    /\ UNCHANGED <<ncSent, ncGot>>
    /\ CodecOnly

\* codec.decode(buf) at the receiving end
NCDecode ==
    /\ CodecRuns
    /\ ncLast.op # "decode" \/ ncLast.outcome = "some"
    /\ ncBuf' = NoiseCodec_decode(ncBuf).rest
    /\ ncGot' = ncGot \o (IF NoiseCodec_decode(ncBuf).outcome = "some"
                           THEN <<NoiseCodec_decode(ncBuf).item>> ELSE << >>)
    /\ ncLast' = CodecStep("decode", ncBuf, NoiseCodec_decode(ncBuf).outcome,
                           Len(ncBuf) - Len(NoiseCodec_decode(ncBuf).rest))
    /\ UNCHANGED <<ncWire, ncSent>>
    /\ CodecOnly

CodecNext ==
    \/ \E msg \in CodecMessages : NCEncode(msg)
    \/ \E n \in 1..(MaxFrames * 20) : NCArrive(n)
    \/ NCDecode

SpecCodec ==
    Init /\ [][CodecNext]_vars

(***************************************************************************)
(* SpecType: buffers made by IndexType::to_bytes or given, and read by      *)
(* IndexType::from_bytes                                                    *)
(***************************************************************************)
TypeOnly == UNCHANGED <<earlyVars, familyVars, nodeVars, netVars, codecVars>>

\* buf = kind.to_bytes()
ITToBytes(kind) ==
    /\ itOps < MaxTypeOps
    /\ itBuf' = IndexType_to_bytes(kind)
    /\ itKind' = <<kind>>
    /\ itResult' = << >>
    /\ itOps' = itOps + 1
    /\ UNCHANGED itSeen
    /\ TypeOnly

\* A buffer from elsewhere
ITGiven(buffer) ==
    /\ itOps < MaxTypeOps
    /\ itBuf' = buffer
    /\ itKind' = << >>
    /\ itResult' = << >>
    /\ itOps' = itOps + 1
    /\ UNCHANGED itSeen
    /\ TypeOnly

\* IndexType::from_bytes(buf)
ITFromBytes ==
    /\ itOps < MaxTypeOps
    /\ itResult' = <<IndexType_from_bytes(itBuf)>>
    /\ itSeen' = itSeen \cup {IF IndexType_from_bytes(itBuf).ok THEN "ok"
                               ELSE IndexType_from_bytes(itBuf).error}
    /\ itOps' = itOps + 1
    /\ UNCHANGED <<itBuf, itKind>>
    /\ TypeOnly

TypeNext ==
    \/ \E kind \in IndexTypes : ITToBytes(kind)
    \/ \E buffer \in TypeBuffers : ITGiven(buffer)
    \/ ITFromBytes

SpecType ==
    Init /\ [][TypeNext]_vars

(***************************************************************************)
(* Properties of SpecPath                                                   *)
(***************************************************************************)
\* Bit pos of the key material of a buffer
KeyBit(buffer, pos) == BitOf(buffer[(pos \div 8) + 2], pos % 8)

\* What write and read do to any path p, leaf or branch, whatever its start:
\* the kind byte and the length byte written, the bits cut, and the path
\* read back equal to p once its start is set again
StoredAndReadBack(p) ==
    LET buffer == write(p)
        back == read(buffer)
    IN  /\ Len(buffer) = PROOF_PATH_SIZE
        /\ start(back) = 0
        /\ is_leaf(back) = is_leaf(p)
        /\ path_eq(start_from(back, start(p)), p)
        /\ path_eq(p, start_from(back, start(p)))
        /\ IF is_leaf(p)
           THEN /\ buffer[PROOF_PATH_KIND_POS + 1] = LEAF_KEY_PREFIX
                /\ buffer[PROOF_PATH_LEN_POS + 1] = 0
                /\ raw_key(back) = raw_key(p)
           ELSE /\ buffer[PROOF_PATH_KIND_POS + 1] = BRANCH_KEY_PREFIX
                /\ buffer[PROOF_PATH_LEN_POS + 1] = end(p)
                /\ end(p) < KEY_SIZE * 8
                /\ \A pos \in 0..(KEY_SIZE * 8 - 1) :
                      KeyBit(buffer, pos) =
                          IF pos >= end(p) THEN 0 ELSE KeyBit(p.bytes, pos)

\* C18: a ProofPath written and read back is the same path up to its start,
\* which is not written: a leaf gives kind byte 1, length byte 0 and a leaf
\* back, a branch gives kind byte 0, its end as the length byte and zero bits
\* from its end on, and the path read back equals the one written once the
\* start is set again; a leaf that starts at 0 is equal to what is read back
\* as it is
C18_StorageRoundTrip ==
    /\ StoredAndReadBack(ppA)
    /\ is_leaf(ppA) /\ start(ppA) = 0 => path_eq(read(write(ppA)), ppA)
    /\ ppLast.op = "store" =>
          /\ ppBuf = write(ppLast.from)
          /\ path_eq(ppA, ppLast.from)
          /\ StoredAndReadBack(ppLast.from)

\* C18 as stated: every leaf path, also one that does not start at 0, is
\* equal to what is read back from its written form as it is
C18_AsStated ==
    is_leaf(ppA) => path_eq(read(write(ppA)), ppA)

\* A leaf that does not start at 0 has been written and read back: what is
\* read is not equal to it until its start is set again
C18_Witness ==
    /\ ppLast.op = "store"
    /\ is_leaf(ppLast.from)
    /\ start(ppLast.from) > 0
    /\ ppBuf[PROOF_PATH_KIND_POS + 1] = LEAF_KEY_PREFIX
    /\ ~path_eq(read(ppBuf), ppLast.from)
    /\ path_eq(ppA, ppLast.from)

\* What prefix(n) and suffix(n) give for a path p
PrefixSuffixOf(p, n) ==
    /\ start(prefix(p, n)) = start(p)
    /\ len(prefix(p, n)) = n
    /\ end(prefix(p, n)) = start(p) + n
    /\ is_leaf(prefix(p, n)) = (start(p) + n = KEY_SIZE * 8)
    /\ end(suffix(p, n)) = end(p)
    /\ start(suffix(p, n)) = start(p) + n
    /\ len(suffix(p, n)) = len(p) - n
    /\ is_leaf(suffix(p, n)) = is_leaf(p)

\* C19: for a path p and 0 <= n <= p.len(), p.prefix(n) has the start of p
\* and length n and is a leaf exactly when start + n is the number of bits
\* of a key; p.suffix(n) has the end of p, the start moved by n, the length
\* shortened by n, and the kind of p
C19_PrefixSuffix ==
    /\ \A n \in 0..len(ppA) : PrefixSuffixOf(ppA, n)
    /\ ppLast.op = "prefix" =>
          /\ ppA = prefix(ppLast.from, ppLast.n)
          /\ PrefixSuffixOf(ppLast.from, ppLast.n)
    /\ ppLast.op = "suffix" =>
          /\ ppA = suffix(ppLast.from, ppLast.n)
          /\ PrefixSuffixOf(ppLast.from, ppLast.n)

\* A prefix has just been taken of a leaf that does not start at 0, up to
\* its last bit: it is a leaf of fewer bits than a key has
C19_Witness ==
    /\ ppLast.op = "prefix"
    /\ start(ppLast.from) > 0
    /\ is_leaf(ppLast.from)
    /\ is_leaf(ppA)
    /\ len(ppA) = ppLast.n
    /\ ppLast.n < KEY_SIZE * 8

\* C20: common_prefix gives the same for (a, b) and (b, a), gives the
\* length of p for (p, p), and gives 0 when the starts differ; where its
\* subtraction overflows, it does so for (a, b) and for (b, a) alike
C20_CommonPrefix ==
    /\ common_prefix(ppA, ppB) = common_prefix(ppB, ppA)
    /\ common_prefix_overflows(ppA, ppB) = common_prefix_overflows(ppB, ppA)
    /\ common_prefix(ppA, ppA) = len(ppA)
    /\ common_prefix(ppB, ppB) = len(ppB)
    /\ ~common_prefix_overflows(ppA, ppA)
    /\ start(ppA) # start(ppB) => common_prefix(ppA, ppB) = 0
    /\ common_prefix(ppA, ppB) <= Min(len(ppA), len(ppB))
    /\ ppLast.op = "common_prefix" => ppLast.n = common_prefix(ppB, ppA)

\* common_prefix has just been taken of two paths of different lengths with
\* the same start, not 0, that differ in a bit both have
C20_Witness ==
    /\ ppLast.op = "common_prefix"
    /\ start(ppA) = start(ppB)
    /\ start(ppA) > 0
    /\ len(ppA) # len(ppB)
    /\ ppLast.n > 0
    /\ ppLast.n < Min(len(ppA), len(ppB))

\* The number of bit positions, counted from the start, on which two paths
\* agree one after another, up to cap
RECURSIVE SharedBits(_, _, _, _)
SharedBits(a, b, idx, cap) ==
    IF idx >= cap THEN cap
    ELSE IF bit(a, idx) # bit(b, idx) THEN idx
    ELSE SharedBits(a, b, idx + 1, cap)

\* common_prefix of two paths is the number of bits they share from the
\* start, and their equality is that of the bits between start and end
BitsInsideOnly(a, b) ==
    LET shared == SharedBits(a, b, 0, Min(len(a), len(b)))
    IN  /\ common_prefix(a, b) = shared
        /\ path_eq(a, b) = (len(a) = len(b) /\ shared = len(a))

\* C31: for two paths with the same start, whatever their key bytes are
\* before the start and after an end, common_prefix is the number of bits
\* they share from the start, capped at the shorter length, its
\* computation never goes below zero, and equality depends on the bits
\* between start and end only
C31_BitsInsideOnly ==
    start(ppA) = start(ppB) =>
        /\ ~common_prefix_overflows(ppA, ppB)
        /\ BitsInsideOnly(ppA, ppB)

(***************************************************************************)
(* Properties of SpecFamily                                                 *)
(***************************************************************************)
\* The entries of a content in ascending order of keys
EntriesOf(content) ==
    LET sorted == SortKeys({k \in DOMAIN content : content[k] # << >>})
    IN  [i \in 1..Len(sorted) |-> <<sorted[i], content[sorted[i]][1]>>]

\* get, contains and the iteration of the view at an address give the
\* content written through that view, and nothing else
ReadsOwn(access, address, content) ==
    /\ \A k \in FamilyKeys :
          /\ get_bytes(access, address, k) = content[k]
          /\ contains_raw_key(access, address, k) = (content[k] # << >>)
    /\ View_iter(access, address, << >>) = EntriesOf(content)

\* ReadsOwn for each of a set of addresses
Isolated(access, addresses, model) ==
    \A a \in addresses : ReadsOwn(access, a, model[a])

\* C32: the view at every address reads what was written through it and
\* no entry written through the view at another address, in the Fork and
\* in a Snapshot after the merge, also for two members of a family of
\* which the family id of one is a prefix of that of the other
C32_Isolated ==
    /\ Isolated(faFork, FamilyAddrs, faModel)
    /\ Isolated(SnapshotAccess(RocksDB_snapshot(faDb), faDb), FamilyAddrs, faMerged)

(***************************************************************************)
(* Properties of SpecNode                                                   *)
(***************************************************************************)
\* The bytes of an image outside the count bytes from offset from are those
\* of the image before
OnlyBytes(raw, before, from, count) ==
    /\ Len(raw) = Len(before)
    /\ \A j \in 1..Len(raw) : (j <= from \/ j > from + count) => raw[j] = before[j]

\* The slot of a kind holds the hash
HoldsHash(raw, kind, hash) == raw_child_hash(raw, kind) = hash

\* The slot of a kind holds the path, with the start at 0
HoldsPath(raw, kind, path) ==
    /\ start(raw_child_path(raw, kind)) = 0
    /\ end(raw_child_path(raw, kind)) = end(path)
    /\ is_leaf(raw_child_path(raw, kind)) = is_leaf(path)
    /\ path_eq(raw_child_path(raw, kind), start_from(path, 0))
    /\ path_eq(start_from(path, 0), raw_child_path(raw, kind))

\* The hash and the path of the slot of a kind are those of the image before
SlotKept(raw, before, kind) ==
    /\ raw_child_hash(raw, kind) = raw_child_hash(before, kind)
    /\ raw_child_path(raw, kind) = raw_child_path(before, kind)

\* C33: after set_child(kind, path, hash) the slot of the kind holds the
\* hash and the path with its start at 0, and the hash and path of the other
\* kind are as before; set_child_hash changes the bytes of that hash only,
\* set_child_path those of that path only; an empty node is BRANCH_NODE_SIZE
\* bytes of zero
C33_SlotsIndependent ==
    /\ Len(bnRaw) = BRANCH_NODE_SIZE
    /\ bnLast.op = "empty" => \A j \in 1..BRANCH_NODE_SIZE : bnRaw[j] = 0
    /\ bnLast.op = "set_child" =>
          /\ HoldsHash(bnRaw, bnLast.kind, bnLast.hash[1])
          /\ HoldsPath(bnRaw, bnLast.kind, bnLast.path[1])
          /\ SlotKept(bnRaw, bnLast.before[1], NotKind(bnLast.kind))
    /\ bnLast.op = "set_child_hash" =>
          /\ HoldsHash(bnRaw, bnLast.kind, bnLast.hash[1])
          /\ OnlyBytes(bnRaw, bnLast.before[1], hash_from(bnLast.kind), HASH_SIZE)
          /\ SlotKept(bnRaw, bnLast.before[1], NotKind(bnLast.kind))
          /\ raw_child_path(bnRaw, bnLast.kind)
                = raw_child_path(bnLast.before[1], bnLast.kind)
    /\ bnLast.op = "set_child_path" =>
          /\ HoldsPath(bnRaw, bnLast.kind, bnLast.path[1])
          /\ OnlyBytes(bnRaw, bnLast.before[1], path_from(bnLast.kind),
                       PROOF_PATH_SIZE)
          /\ SlotKept(bnRaw, bnLast.before[1], NotKind(bnLast.kind))
          /\ raw_child_hash(bnRaw, bnLast.kind)
                = raw_child_hash(bnLast.before[1], bnLast.kind)

\* set_child has just set the right slot, with a path that does not start
\* at 0 and a hash that is not zero, in a node whose left slot held a
\* hash and a path that are not zero
C33_Witness ==
    /\ bnLast.op = "set_child"
    /\ bnLast.kind = Right
    /\ start(bnLast.path[1]) > 0
    /\ \E j \in 1..HASH_SIZE : bnLast.hash[1][j] # 0
    /\ raw_child_hash(bnLast.before[1], Left) # raw_child_hash(raw_empty, Left)
    /\ raw_child_path(bnLast.before[1], Left) # raw_child_path(raw_empty, Left)
    /\ raw_child_hash(bnRaw, Left) = raw_child_hash(bnLast.before[1], Left)

(***************************************************************************)
(* Properties of SpecNet                                                    *)
(***************************************************************************)
\* The events of the handler of an incoming connection follow what it has
\* received: nothing before the first message and nothing when the first
\* message is not a Connect; otherwise PeerConnected of the first message
\* and then MessageReceived of every later message, in order
HandlerOrder(h) ==
    IF h.wire = << >> THEN h.events = << >> /\ h.rstate = "first"
    ELSE IF h.wire[1].kind # "Connect"
    THEN h.events = << >> /\ h.rstate = "failed" /\ Len(h.wire) = 1
    ELSE /\ h.rstate = "open"
         /\ Len(h.events) = Len(h.wire)
         /\ h.events[1] = PeerConnected(h.wire[1])
         /\ \A i \in 2..Len(h.wire) : h.events[i] = MessageReceived(h.wire[i])

\* What an outgoing connection has queued starts with the Connect of this
\* node, and what its peer has received and what is left in its channel are
\* together what was queued, in order
ConnectQueuedFirst(o) ==
    /\ o.sent # << >>
    /\ o.sent[1] = OurConnect
    /\ o.phase # "ended" => o.handler.wire \o o.queue = o.sent
    /\ o.phase = "connecting" => o.handler.wire = << >>

\* C34: every outgoing connection opened for SendMessage(peer, m) has the
\* Connect of this node queued first, followed by m unless m is that
\* Connect; the handler of a connection emits PeerConnected before any
\* MessageReceived, and emits neither when the first message it receives
\* is not a Connect
C34_ConnectFirst ==
    /\ \A c \in DOMAIN nwOut :
          ConnectQueuedFirst(nwOut[c]) /\ HandlerOrder(nwOut[c].handler)
    /\ \A c \in DOMAIN nwIn : HandlerOrder(nwIn[c].handler)
    /\ (nwLast.op = "send" /\ Len(nwOut) > nwLast.opened) =>
          /\ nwOut[Len(nwOut)].sent =
                IF nwLast.message = OurConnect THEN <<OurConnect>>
                ELSE <<OurConnect, nwLast.message>>
          /\ nwOut[Len(nwOut)].queue = nwOut[Len(nwOut)].sent

\* The peer of an outgoing connection opened for a message that is not a
\* Connect has emitted PeerConnected and then MessageReceived of that
\* message, and the handler of an incoming connection whose first message
\* was not a Connect has ended without an event
C34_Witness ==
    /\ \E c \in DOMAIN nwOut :
          /\ nwOut[c].sent = <<OurConnect, StatusMessage>>
          /\ nwOut[c].handler.events =
                <<PeerConnected(OurConnect), MessageReceived(StatusMessage)>>
    /\ \E c \in DOMAIN nwIn :
          /\ nwIn[c].handler.wire = <<StatusMessage>>
          /\ nwIn[c].handler.events = << >>
          /\ ~nwIn[c].open

\* PeerDisconnected of the peer of a connection has been sent since the
\* connection was opened
DisconnectedSince(o) ==
    \E i \in (o.opened_at + 1)..Len(nwEvents) : nwEvents[i] = PeerDisconnected(o.peer)

C36_RejectedWhileFull ==
    nwLast.op = "incoming" =>
        (nwLast.rejected <=> nwLast.open_before >= max_incoming_connections)

(***************************************************************************)
(* Properties of SpecCodec                                                  *)
(***************************************************************************)
\* The buffer holds a complete frame: the four bytes of the length and the
\* len bytes after them
CompleteFrame(buf) == Len(buf) >= 4 /\ Len(buf) >= 4 + read_u32(buf)

IsPrefix(s, of) == Len(s) <= Len(of) /\ s = SubSeq(of, 1, Len(s))

\* C37: decode returns Ok(None) without a panic and without consuming
\* bytes whenever the buffer holds less than a complete frame (fewer than 4
\* bytes, or fewer than 4 + len bytes), and consumes exactly 4 + len bytes
\* when a complete frame is there; the messages come out of decode in the
\* order they were given to encode
C37_DecodeWaitsForFrame ==
    /\ ncLast.op = "decode" =>
          IF CompleteFrame(ncLast.before)
          THEN /\ ncLast.outcome = "some"
               /\ ncLast.consumed = 4 + read_u32(ncLast.before)
          ELSE /\ ncLast.outcome = "none"
               /\ ncLast.consumed = 0
    /\ IsPrefix(ncGot, ncSent)

(***************************************************************************)
(* Properties of SpecType                                                   *)
(***************************************************************************)
\* What from_bytes is to give for a buffer: the error of the size unless the
\* buffer is one byte, the error of the value unless the byte is one of
\* 1..8, and otherwise the kind whose encoding the buffer is
ReadAsKind(buffer, result) ==
    IF Len(buffer) # 1
    THEN ~result.ok /\ result.error = "Wrong buffer size" /\ result.value = << >>
    ELSE IF buffer[1] \notin 1..8
    THEN ~result.ok /\ result.error = "Unknown value" /\ result.value = << >>
    ELSE /\ result.ok
         /\ result.value # << >>
         /\ result.value[1] \in IndexTypes
         /\ IndexType_to_bytes(result.value[1]) = buffer

\* C38: each of the eight kinds has an encoding of one byte in 1..8 from
\* which from_bytes gives the kind back; from_bytes gives the error
\* 'Wrong buffer size' for a buffer that is not one byte and the error
\* 'Unknown value' for one byte outside 1..8, and no kind in either case
C38_IndexTypeCodec ==
    /\ Cardinality(IndexTypes) = 8
    /\ \A kind \in IndexTypes :
          /\ Len(IndexType_to_bytes(kind)) = 1
          /\ IndexType_to_bytes(kind)[1] \in 1..8
          /\ IndexType_from_bytes(IndexType_to_bytes(kind)) = TypeOk(kind)
    /\ ReadAsKind(itBuf, IndexType_from_bytes(itBuf))
    /\ itResult # << >> =>
          /\ ReadAsKind(itBuf, itResult[1])
          /\ itKind # << >> => itResult[1] = TypeOk(itKind[1])

\* from_bytes has given both errors, and has just given back the kind of
\* a buffer made by to_bytes
C38_Witness ==
    /\ itSeen = {"ok", "Wrong buffer size", "Unknown value"}
    /\ itKind # << >>
    /\ itResult # << >>
    /\ itResult[1].ok
    /\ itResult[1].value = itKind

(***************************************************************************)
(* Properties of SpecMap                                                    *)
(***************************************************************************)
\* The pairs of a content, put one by one in the order of a key sequence
RECURSIVE PutAll(_, _, _)
PutAll(access, ks, content) ==
    IF ks = << >> THEN access
    ELSE PutAll(ProofMap_put(access, PMAddr, Head(ks), content[Head(ks)][1]),
                Tail(ks), content)

\* The root hash of an empty map after the pairs of a content are put in
\* ascending order of keys
SortedRoot(content) ==
    merkle_root(PutAll(Database_fork(EmptyMap),
                       SortKeys({k \in DOMAIN content : content[k] # << >>}),
                       content),
                PMAddr)

\* C1: whatever the order in which pairs with distinct keys were put into an
\* empty map, the root hash is the one of the same pairs put in ascending
\* order of keys: the permutation does not show in merkle_root
C1_OrderIndependence ==
    pmFresh => merkle_root(pmFork, PMAddr) = SortedRoot(pmModel)

\* MaxEntries pairs put into an empty map, the least key put last
C1_Witness ==
    /\ pmFresh
    /\ Cardinality(PMPresent) = MaxEntries
    /\ pmLast = MinKey(PMPresent)

\* C4: get(k) is the value of the latest put(k, v) not followed by
\* remove(k), None without such a put, and contains(k) holds exactly when
\* get(k) is Some; the model map changes at k only, so operations on other
\* keys leave the result for k alone
C4_GetContains ==
    \A k \in PMKeys :
        /\ ProofMap_get(pmFork, PMAddr, k) = pmModel[k]
        /\ ProofMap_contains(pmFork, PMAddr, k) = (ProofMap_get(pmFork, PMAddr, k) # << >>)

\* A key that was present has just been removed while other keys are present
C4_Witness ==
    /\ ~pmFresh
    /\ pmLastOp = "remove"
    /\ pmModel[pmLast] = << >>
    /\ PMPresent # {}
    /\ \A k \in PMKeys : ProofMap_get(pmFork, PMAddr, k) = pmModel[k]
    /\ \E k \in PMPresent : ProofMap_contains(pmFork, PMAddr, k)

\* C14: the root hash of a ProofMap that holds no entry is Hash::zero, and
\* the root hash of a map that holds an entry is the hash computed from its
\* root node, which is not the zero constant
C14_EmptyRoot ==
    IF PMPresent = {}
    THEN /\ get_root_node(pmFork, PMAddr) = << >>
         /\ merkle_root(pmFork, PMAddr) = ZeroHash
    ELSE /\ get_root_node(pmFork, PMAddr) # << >>
         /\ merkle_root(pmFork, PMAddr) # ZeroHash
         /\ merkle_root(pmFork, PMAddr)[1] = "hash"

\* A map that held entries and holds none again, the last one cleared away
\* or removed
C14_Witness ==
    /\ PMPresent = {}
    /\ pmLastOp \in {"remove", "clear"}
    /\ pmOps >= 2
    /\ merkle_root(pmFork, PMAddr) = ZeroHash

\* The one key of a map that holds one key
OnlyKey == CHOOSE k \in PMKeys : PMPresent = {k}

\* C15: with exactly one key the root is a leaf and the root hash is the
\* hash of the serialized path of the leaf followed by the hash of the
\* value; with two or more keys the root is a branch and the root hash is
\* the hash of the stored image of that branch
C15_RootShapes ==
    LET root == get_root_node(pmFork, PMAddr)
    IN  /\ Cardinality(PMPresent) = 1 =>
              /\ root # << >> /\ root[1][2][1] = "Leaf"
              /\ Len(write(ProofPath_new(OnlyKey))) = PROOF_PATH_SIZE
              /\ merkle_root(pmFork, PMAddr) =
                     Hash(<<write(ProofPath_new(OnlyKey)),
                            Hash(pmModel[OnlyKey][1])>>)
        /\ Cardinality(PMPresent) >= 2 =>
              /\ root # << >> /\ root[1][2][1] = "Branch"
              /\ ~is_leaf(root[1][1])
              /\ Len(root[1][2][2]) = 4
              /\ merkle_root(pmFork, PMAddr) =
                     Hash(get_bytes(pmFork, PMAddr, write(root[1][1]))[1])

\* A map back to one key after it held two, and its root a leaf again
C15_Witness ==
    /\ Cardinality(PMPresent) = 1
    /\ pmLastOp = "remove"
    /\ get_root_node(pmFork, PMAddr)[1][2][1] = "Leaf"

\* All that the index stores, nodes and values, in the order of the keys
StoredEntries(access) == View_iter(access, PMAddr, << >>)

\* C16: remove(k) of a key that is not in the map is a no-op: every stored
\* node, every stored value and the root hash are what they were, whether
\* the root is absent, a leaf or a branch
C16_RemoveAbsent ==
    [][(pmLastOp' = "remove_absent" /\ pmOps' = pmOps + 1)
          => /\ StoredEntries(pmFork') = StoredEntries(pmFork)
             /\ merkle_root(pmFork', PMAddr) = merkle_root(pmFork, PMAddr)
             /\ \A k \in PMKeys :
                   ProofMap_get(pmFork', PMAddr, k) = ProofMap_get(pmFork, PMAddr, k)]_vars

\* A key that is not in the map has just been removed from a map whose root
\* is a branch, the key sharing its first byte with stored keys
C16_Witness ==
    /\ pmLastOp = "remove_absent"
    /\ Cardinality(PMPresent) >= 2
    /\ get_root_node(pmFork, PMAddr)[1][2][1] = "Branch"
    /\ pmLast \notin PMPresent
    /\ \A k \in PMPresent : k[1] = pmLast[1]

\* The keys the index stores, nodes and values
StoredKeys(access) ==
    {StoredEntries(access)[j][1] : j \in DOMAIN StoredEntries(access)}

\* The keys of the stored nodes, of the stored branches, leaves and values
NodeKeys(access) == {k \in StoredKeys(access) : k[1] # VALUE_KEY_PREFIX}
BranchKeys(access) == {k \in StoredKeys(access) : k[1] = BRANCH_KEY_PREFIX}
LeafKeys(access) == {k \in StoredKeys(access) : k[1] = LEAF_KEY_PREFIX}
ValueKeys(access) == {k \in StoredKeys(access) : k[1] = VALUE_KEY_PREFIX}

\* What is stored under a key
StoredAt(access, k) == get_bytes(access, PMAddr, k)[1]

\* A fresh map into which the pairs of a content were put, in ascending
\* order of keys
FreshMap(content) ==
    PutAll(Database_fork(EmptyMap),
           SortKeys({k \in DOMAIN content : content[k] # << >>}), content)

\* C24: after any sequence of put (also over a key the map holds) and
\* remove, the root hash is the root hash of a fresh map into which the
\* pairs the map holds were put, and the nodes and values stored are those
\* of that fresh map; with every key removed the root hash is Hash::zero
C24_ContentsOnly ==
    /\ merkle_root(pmFork, PMAddr) = merkle_root(FreshMap(pmModel), PMAddr)
    /\ StoredEntries(pmFork) = StoredEntries(FreshMap(pmModel))
    /\ PMPresent = {} => /\ merkle_root(pmFork, PMAddr) = ZeroHash
                         /\ StoredEntries(pmFork) = << >>

\* A key has just been removed from a map of MaxEntries keys with a branch
\* below the root branch: the branch of the removed leaf collapsed
C24_Witness ==
    /\ pmLastOp = "remove"
    /\ ~pmFresh
    /\ Cardinality(PMPresent) = MaxEntries - 1
    /\ Cardinality(BranchKeys(pmFork)) = 1
    /\ \E k \in PMPresent :
          common_prefix(ProofPath_new(k), ProofPath_new(pmLast)) >
              len(get_root_node(pmFork, PMAddr)[1][1])

\* C25: in a map that is not empty, the first key in the ordered iteration
\* of the index is the key of a node, the root: its path is a prefix of the
\* path of every other stored node and it sorts strictly before every other
\* stored key
C25_RootFirst ==
    PMPresent # {} =>
        LET first == StoredEntries(pmFork)[1][1]
        IN  /\ first \in NodeKeys(pmFork)
            /\ get_root_node(pmFork, PMAddr)[1][1] = read(first)
            /\ \A q \in NodeKeys(pmFork) \ {first} :
                  /\ len(read(first)) < len(read(q))
                  /\ common_prefix(read(q), read(first)) = len(read(first))
            /\ \A q \in StoredKeys(pmFork) \ {first} : LexLess(first, q)

\* A map of MaxEntries keys whose root branch is not at bit 0 and has a
\* branch below it, after a put over a key the map held
C25_Witness ==
    /\ Cardinality(PMPresent) = MaxEntries
    /\ ~pmFresh
    /\ Cardinality(BranchKeys(pmFork)) = 2
    /\ len(get_root_node(pmFork, PMAddr)[1][1]) > 0

\* The key in a child slot of a stored branch: the written path of the child
SlotKey(branch, kind) == IF kind = Right THEN branch[4] ELSE branch[3]

\* C26: for every stored branch and each of its two slots, the hash in the
\* slot is the hash of the node stored under the path in the slot: the hash
\* of the image of the branch stored there, or the hash a leaf stores, which
\* is the hash of its value
C26_MerkleConsistency ==
    \A b \in BranchKeys(pmFork) : \A kind \in {Left, Right} :
        LET branch == StoredAt(pmFork, b)
            slot == SlotKey(branch, kind)
        IN  /\ slot \in NodeKeys(pmFork)
            /\ child_hash(branch, kind) =
                   IF slot[1] = LEAF_KEY_PREFIX
                   THEN StoredAt(pmFork, slot)
                   ELSE Hash(StoredAt(pmFork, slot))
            /\ slot[1] = LEAF_KEY_PREFIX =>
                   child_hash(branch, kind) =
                       Hash(pmModel[raw_key(read(slot))][1])

\* A value has just been put over the value of a key whose leaf lies under
\* the branch below the root branch
C26_Witness ==
    /\ pmLastOp = "put"
    /\ ~pmFresh
    /\ Cardinality(BranchKeys(pmFork)) = 2
    /\ \A kind \in {Left, Right} :
          SlotKey(StoredAt(pmFork, StoredEntries(pmFork)[1][1]), kind)
              # write(ProofPath_new(pmLast))

\* The two slots of a branch hold the keys of two different nodes among
\* the stored keys, neither the branch itself
TwoChildren(keys, b, branch) ==
    /\ SlotKey(branch, Left) \in keys \ {b}
    /\ SlotKey(branch, Right) \in keys \ {b}
    /\ SlotKey(branch, Left)[1] # VALUE_KEY_PREFIX
    /\ SlotKey(branch, Right)[1] # VALUE_KEY_PREFIX
    /\ SlotKey(branch, Left) # SlotKey(branch, Right)

\* The branches and leaves among the stored keys of a map of n keys
BranchCount(access, branches, leaves, present) ==
    /\ present # {} => Cardinality(branches) = Cardinality(leaves) - 1
    /\ Cardinality(present) = 1 => branches = {}
    /\ Cardinality(present) = 2 =>
          \E b \in branches :
              /\ branches = {b}
              /\ {SlotKey(StoredAt(access, b), Left), SlotKey(StoredAt(access, b), Right)}
                     = {write(ProofPath_new(k)) : k \in present}

SlotUnder(P, slot_path, kind) ==
    /\ end(slot_path) > end(P)
    /\ common_prefix(slot_path, P) = end(P)
    /\ bit(start_from(slot_path, end(P)), 0) = kind

LeafAndValue(access, keys, k, modelled) ==
    /\ (to_value_path(k) \in keys) = (write(ProofPath_new(k)) \in keys)
    /\ to_value_path(k) \in keys =>
           /\ StoredAt(access, write(ProofPath_new(k)))
                  = Hash(StoredAt(access, to_value_path(k)))
           /\ <<StoredAt(access, to_value_path(k))>> = modelled

\* The leaves and the values among the stored keys are those of the keys
\* of the set present
LeavesAndValues(keys, present) ==
    /\ {q \in keys : q[1] = VALUE_KEY_PREFIX} = {to_value_path(k) : k \in present}
    /\ {q \in keys : q[1] = LEAF_KEY_PREFIX}
           = {write(ProofPath_new(k)) : k \in present}

\* C29: a value is stored under the value key of k exactly when a leaf node
\* is stored under the written path of k, and the hash the leaf stores is
\* the hash of the stored value; no other leaf and no other value is stored
C29_LeafValue ==
    /\ \A k \in PMKeys : LeafAndValue(pmFork, StoredKeys(pmFork), k, pmModel[k])
    /\ LeavesAndValues(StoredKeys(pmFork), PMPresent)

\* A key has just been removed and another is left: neither the leaf nor
\* the value of the removed key is stored, both of the other key are
C29_Witness ==
    /\ pmLastOp = "remove"
    /\ PMPresent # {}
    /\ to_value_path(pmLast) \notin StoredKeys(pmFork)
    /\ write(ProofPath_new(pmLast)) \notin StoredKeys(pmFork)
    /\ \E k \in PMPresent : to_value_path(k) \in StoredKeys(pmFork)

\* The keys met from a node key by following the child slots of the
\* branches stored, the key itself among them
RECURSIVE Reachable(_, _)
Reachable(access, k) ==
    IF k \in BranchKeys(access)
    THEN {k} \cup Reachable(access, SlotKey(StoredAt(access, k), Left))
             \cup Reachable(access, SlotKey(StoredAt(access, k), Right))
    ELSE {k}

\* C30: the stored node keys are exactly the keys reachable from the root
\* by following child slots: nothing removed or collapsed is left stored,
\* and every path in a child slot has a node stored under it
C30_NoOrphans ==
    IF PMPresent = {} THEN NodeKeys(pmFork) = {}
    ELSE NodeKeys(pmFork) = Reachable(pmFork, StoredEntries(pmFork)[1][1])

\* A key has just been removed from a map of two keys: the root branch is
\* gone and the leaf left is the root
C30_Witness ==
    /\ pmLastOp = "remove"
    /\ Cardinality(PMPresent) = 1
    /\ pmOps >= 3
    /\ NodeKeys(pmFork) = {write(ProofPath_new(OnlyKey))}

(***************************************************************************)
(* Properties of SpecProof                                                  *)
(***************************************************************************)
\* The root hash a verifier is given
PRRoot == merkle_root(prFork, PMAddr)

\* C2: for every content reached by put and remove and every key k, present
\* or absent, get_proof(k) verifies against the current root hash and its
\* verified entries are exactly (k, M.get(k))
C2_ProofSoundness ==
    LET root == PRRoot
    IN  \A k \in PRKeys :
            LET c == MapProof_verify(get_proof(prFork, PMAddr, k), root)
            IN  /\ c.err = ""
                /\ c.entries = <<<<k, prModel[k]>>>>

\* A map of MaxEntries keys: the proof of a present key and the proof of an
\* absent key both carry sibling hashes and verify
C2_Witness ==
    /\ Cardinality(PRPresent) = MaxEntries
    /\ \E k \in PRPresent :
          LET mp == get_proof(prFork, PMAddr, k)
          IN  /\ Len(mp.proof) = 2
              /\ MapProof_verify(mp, PRRoot).entries = <<<<k, prModel[k]>>>>
    /\ \E k \in PRKeys \ PRPresent :
          LET mp == get_proof(prFork, PMAddr, k)
          IN  /\ Len(mp.proof) >= 2
              /\ MapProof_verify(mp, PRRoot).entries = <<<<k, << >>>>>>

\* The lists of keys requested of a multiproof: keys may repeat
RECURSIVE SeqsUpTo(_, _)
SeqsUpTo(S, n) ==
    IF n = 0 THEN {<< >>}
    ELSE LET shorter == SeqsUpTo(S, n - 1)
         IN  shorter \cup {Append(sq, x) : sq \in shorter, x \in S}

ProofKeyLists == SeqsUpTo(PRKeys, MaxProofKeys)

\* C3: for every content and every list K of requested keys, get_multiproof(K)
\* verifies, the hash it reconstructs is the root hash, its present entries are
\* exactly the (k, M[k]) with k in K and in M, its missing keys exactly the
\* keys of K not in M, and each unique key is reported once
C3_MultiproofSoundness ==
    LET root == PRRoot
        present == PRPresent
    IN  \A K \in ProofKeyLists :
            LET v == MapProof_verify(get_multiproof(prFork, PMAddr, K), root)
            IN  /\ v.err = ""
                /\ v.hash = root
                /\ {e \in Range(v.entries) : e[2] # << >>}
                       = {<<k, prModel[k]>> : k \in Range(K) \cap present}
                /\ {e[1] : e \in {x \in Range(v.entries) : x[2] = << >>}}
                       = Range(K) \ present
                /\ Len(v.entries) = Cardinality(Range(K))

\* A multiproof of a repeated present key and an absent key on a map of
\* MaxEntries keys
C3_Witness ==
    /\ Cardinality(PRPresent) = MaxEntries
    /\ \E k \in PRPresent, a \in PRKeys \ PRPresent :
          LET mp == get_multiproof(prFork, PMAddr, <<k, a, k>>)
          IN  /\ Len(mp.entries) = 2
              /\ mp.proof # << >>
              /\ MapProof_verify(mp, PRRoot).err = ""

\* Hashes that are not the root hash of the map: the zero constant, the
\* stored hash of a root leaf without its path, the hash of some other image
WrongHashes ==
    {ZeroHash, Hash(<<0>>), merkle_root_bare_leaf(prFork, PMAddr)} \ {PRRoot}

\* The hashes of the stored values, none of them the root hash
ValueHashes == {Hash(prModel[k][1]) : k \in PRPresent} \ {PRRoot}

\* The verification of mp against each hash of W is refused with HashMismatch
Refused(mp, W) ==
    \A h \in W :
        LET v == MapProof_verify(mp, h)
        IN  v.err = "HashMismatch" /\ v.entries = << >>

\* The lists of keys asked of get_multiproof in the check of refusals
MismatchKeyLists == SeqsUpTo(PRKeys, MaxMismatchKeys)

\* C17: the verification of a proof made by get_proof or get_multiproof
\* against a hash that is not the root hash of the map gives the error
\* HashMismatch as its result, and no entries
C17_HashMismatch ==
    /\ \A k \in PRKeys :
          Refused(get_proof(prFork, PMAddr, k), WrongHashes \cup ValueHashes)
    /\ \A K \in MismatchKeyLists :
          Refused(get_multiproof(prFork, PMAddr, K), WrongHashes)

\* Proofs of a full map, for a present and for an absent key and for both at
\* once, verify against the root hash and are refused against the root hash
\* without the path of a leaf and against the zero constant
C17_Witness ==
    /\ Cardinality(PRPresent) = MaxEntries
    /\ Cardinality(WrongHashes) >= 2
    /\ ValueHashes # {}
    /\ \E k \in PRPresent, a \in PRKeys \ PRPresent :
          /\ MapProof_verify(get_proof(prFork, PMAddr, k), PRRoot).err = ""
          /\ MapProof_verify(get_proof(prFork, PMAddr, k), ZeroHash).err = "HashMismatch"
          /\ MapProof_verify(get_proof(prFork, PMAddr, a), ZeroHash).err = "HashMismatch"
          /\ MapProof_verify(get_multiproof(prFork, PMAddr, <<k, a>>), ZeroHash).err
                 = "HashMismatch"

(***************************************************************************)
(* Properties of SpecDb                                                     *)
(***************************************************************************)
\* C5: a Snapshot returns for every get, contains and iter what it returned
\* when it was taken, whatever was merged since: it observes no Put, Delete
\* or clear of a later patch
C5_SnapshotIsolation ==
    \A j \in DOMAIN dbSnaps :
        SnapshotReads(dbSnaps[j].snap, dbTable) = dbSnaps[j].seen

\* A Snapshot taken before a merge that changed what the database holds
C5_Witness ==
    \E j \in DOMAIN dbSnaps :
        /\ dbSnaps[j].epoch < Len(dbMerged)
        /\ dbSnaps[j].snap.table # dbTable
        /\ SnapshotReads(dbSnaps[j].snap, dbTable) = dbSnaps[j].seen

\* What a patch records for a physical key: <<change>>, with a clear of the
\* view counting as Delete, or << >> when the patch leaves the key alone
PatchChange(patch, pk) ==
    LET hits == {ak \in DbAddrs \X DbKeys :
                    keyed(ak[1], ak[2]) = pk /\ ak[2] \in DOMAIN patch[ak[1]].data}
        hit == CHOOSE ak \in hits : TRUE
    IN  IF hits # {} THEN <<patch[hit[1]].data[hit[2]]>>
        ELSE IF \E a \in DbAddrs : InView(pk, a) /\ patch[a].emptied
        THEN <<Delete>>
        ELSE << >>

\* What the first e merged patches leave under a physical key: the latest
\* change recorded for it
RECURSIVE Visible(_, _)
Visible(pk, e) ==
    IF e = 0 THEN << >>
    ELSE LET ch == PatchChange(dbMerged[e], pk)
         IN  IF ch = << >> THEN Visible(pk, e - 1)
             ELSE IF IsPut(ch[1]) THEN <<ch[1][2]>>
             ELSE << >>

\* C6: a Snapshot or Fork created after merges succeeded observes all of
\* them: a key reads the value of the latest merged Put, absent after a merged
\* Delete, so entries of an earlier merged fork stay visible with later ones
C6_MergeVisible ==
    /\ \A j \in DOMAIN dbSnaps : \A a \in DbAddrs, k \in DbKeys :
          LET access == SnapshotAccess(dbSnaps[j].snap, dbTable)
          IN  /\ get_bytes(access, a, k) = Visible(keyed(a, k), dbSnaps[j].epoch)
              /\ contains_raw_key(access, a, k)
                     = (Visible(keyed(a, k), dbSnaps[j].epoch) # << >>)
    /\ \A j \in DOMAIN dbForks : \A a \in DbAddrs, k \in DbKeys :
          LET f == dbForks[j].f
          IN  (k \notin DOMAIN f.changes[a].data /\ ~f.changes[a].emptied)
                  => get_bytes(f, a, k) = Visible(keyed(a, k), dbForks[j].epoch)

\* A Snapshot and a Fork created after two merges: a key put by the first
\* patch and untouched by the second, a key put by the second and a key
\* deleted by a patch are all observed
C6_Witness ==
    /\ Len(dbMerged) = 2
    /\ \E j \in DOMAIN dbSnaps, i \in DOMAIN dbForks, a, b \in DbAddrs, k, l \in DbKeys :
          LET access == SnapshotAccess(dbSnaps[j].snap, dbTable)
              one == PatchChange(dbMerged[1], keyed(a, k))
              two == PatchChange(dbMerged[2], keyed(b, l))
          IN  /\ dbSnaps[j].epoch = 2
              /\ dbForks[i].epoch = 2
              /\ one # << >> /\ IsPut(one[1])
              /\ PatchChange(dbMerged[2], keyed(a, k)) = << >>
              /\ two # << >> /\ IsPut(two[1])
              /\ get_bytes(access, a, k) = <<one[1][2]>>
              /\ get_bytes(access, b, l) = <<two[1][2]>>
              /\ get_bytes(dbForks[i].f, a, k) = <<one[1][2]>>

\* The physical keys of SpecDb
DbPhysKeys == {keyed(a, k) : a \in DbAddrs, k \in DbKeys}

\* C9: merge is atomic: after an error the table is what it was before the
\* call; after success every change of the patch is applied, and the keys the
\* patch leaves alone are as before
C9_MergeAtomic ==
    \A j \in DOMAIN dbLast :
        LET m == dbLast[j]
        IN  IF ~m.ok THEN dbTable = m.before
            ELSE \A pk \in DbPhysKeys :
                    LET ch == PatchChange(m.patch, pk)
                    IN  Snapshot_get(dbTable, pk) =
                            IF ch = << >> THEN Snapshot_get(m.before, pk)
                            ELSE IF IsPut(ch[1]) THEN <<ch[1][2]>>
                            ELSE << >>

\* A merge that failed, after an earlier merge that succeeded, with a patch
\* that would have deleted a key the table holds
C9_Witness ==
    \E j \in DOMAIN dbLast :
        /\ ~dbLast[j].ok
        /\ Len(dbMerged) >= 1
        /\ dbTable = dbLast[j].before
        /\ \E pk \in DOMAIN dbTable : PatchChange(dbLast[j].patch, pk) = <<Delete>>

\* What a table holds under a physical key after a patch: the change of the
\* patch for the key, or what the table held
AfterPatch(held, patch, pk) ==
    IF PatchChange(patch, pk) = << >> THEN held
    ELSE IF IsPut(PatchChange(patch, pk)[1]) THEN <<PatchChange(patch, pk)[1][2]>>
    ELSE << >>

\* C13: a Fork reads, on the keys it has no change of its own for, the
\* database state it was created from, whatever was merged since; and when
\* two Forks of one database state are merged one after the other, the table
\* is the base state with the first patch and then the second applied: the
\* later merge wins on a key both changed, and no change is lost
C13_TwoForks ==
    /\ \A j \in DOMAIN dbForks : \A a \in DbAddrs, k \in DbKeys :
          (k \notin DOMAIN dbForks[j].f.changes[a].data
               /\ ~dbForks[j].f.changes[a].emptied)
              => /\ get_bytes(dbForks[j].f, a, k)
                        = Snapshot_get(dbForks[j].base, keyed(a, k))
                 /\ contains_raw_key(dbForks[j].f, a, k)
                        = Snapshot_contains(dbForks[j].base, keyed(a, k))
    /\ (dbPrev # << >> /\ dbLast # << >>) =>
          \A pk \in DbPhysKeys :
              Snapshot_get(dbTable, pk) =
                  AfterPatch(AfterPatch(Snapshot_get(dbPrev[1].before, pk),
                                        dbPrev[1].patch, pk),
                             dbLast[1].patch, pk)

\* Two Forks of one database state merged one after the other, with a Put
\* of the same key and different values: the table holds the value of the
\* later merge
C13_Witness ==
    /\ dbPrev # << >> /\ dbLast # << >>
    /\ \E pk \in DbPhysKeys :
          /\ PatchChange(dbPrev[1].patch, pk) # << >>
          /\ PatchChange(dbLast[1].patch, pk) # << >>
          /\ IsPut(PatchChange(dbPrev[1].patch, pk)[1])
          /\ IsPut(PatchChange(dbLast[1].patch, pk)[1])
          /\ PatchChange(dbPrev[1].patch, pk) # PatchChange(dbLast[1].patch, pk)
          /\ Snapshot_get(dbTable, pk) = <<PatchChange(dbLast[1].patch, pk)[1][2]>>

(***************************************************************************)
(* Properties of SpecFork                                                   *)
(***************************************************************************)
\* C7: after checkpoint, any puts, removes and clears, and rollback, every
\* read (get, contains, iteration) returns what it returned right before the
\* checkpoint; this holds for every checkpoint/rollback pair, nested or later
C7_SavepointLaw ==
    fkBack # << >> => ForkReads(fkFork) = fkBack[1].reads

\* A rollback that undid changes made after the checkpoint and kept a change
\* made before it
C7_Witness ==
    /\ fkBack # << >>
    /\ ForkReads(fkFork) = fkBack[1].reads
    /\ fkBack[1].undone # fkBack[1].reads
    /\ ForkReads(fkFork) # ForkReads(Database_fork(fkFork.snapshot))

\* C10: a read of key k through a View on a Fork returns the value of the
\* latest pending Put, absent when the latest pending change is Delete, and
\* with no pending change in a view not cleared what the Snapshot holds; get
\* and contains agree
C10_ForkReads ==
    \A a \in DbAddrs, k \in DbKeys :
        /\ contains_raw_key(fkFork, a, k) = (get_bytes(fkFork, a, k) # << >>)
        /\ IF fkLatest[a][k] # << >>
           THEN get_bytes(fkFork, a, k) =
                    IF IsPut(fkLatest[a][k][1]) THEN <<fkLatest[a][k][1][2]>>
                    ELSE << >>
           ELSE ~fkCleared[a] =>
                    get_bytes(fkFork, a, k) = Snapshot_get(fkFork.snapshot, keyed(a, k))

\* A Fork with a pending Put over a stored value, a pending Delete of a stored
\* key and a stored key without pending change
C10_Witness ==
    \E k, l \in DbKeys :
        /\ fkLatest[AddrA][k] # << >> /\ IsPut(fkLatest[AddrA][k][1])
        /\ Snapshot_contains(fkFork.snapshot, keyed(AddrA, k))
        /\ get_bytes(fkFork, AddrA, k) # Snapshot_get(fkFork.snapshot, keyed(AddrA, k))
        /\ fkLatest[AddrA][l] = <<Delete>>
        /\ Snapshot_contains(fkFork.snapshot, keyed(AddrA, l))
        /\ ~contains_raw_key(fkFork, AddrA, l)
        /\ fkLatest[AddrB][<<1>>] = << >> /\ ~fkCleared[AddrB]
        /\ get_bytes(fkFork, AddrB, <<1>>) = <<<<2>>>>

\* The entries Put into the view at an address since its last clear, by the
\* latest pending changes: key -> Option value
PutSince(latest, a, k) ==
    IF latest[a][k] # << >> /\ IsPut(latest[a][k][1])
    THEN <<latest[a][k][1][2]>> ELSE << >>

\* The same entries as the pairs of an iteration, in ascending order of keys
PutSinceSorted(latest, a) ==
    LET sorted == SortKeys({k \in DbKeys : PutSince(latest, a, k) # << >>})
    IN  [i \in 1..Len(sorted) |-> <<sorted[i], PutSince(latest, a, sorted[i])[1]>>]

\* C11: after clear on a Fork view, get, contains and iteration return only
\* the entries Put after the clear, whatever the Snapshot holds for the view;
\* after the merge of the Fork the database holds for that view exactly the
\* entries Put after the clear
C11_ClearedView ==
    /\ \A a \in DbAddrs : fkCleared[a] =>
          /\ \A k \in DbKeys :
                /\ get_bytes(fkFork, a, k) = PutSince(fkLatest, a, k)
                /\ contains_raw_key(fkFork, a, k) = (PutSince(fkLatest, a, k) # << >>)
          /\ View_iter(fkFork, a, << >>) = PutSinceSorted(fkLatest, a)
    /\ \A j \in DOMAIN fkMerged : \A a \in DbAddrs : fkMerged[j].cleared[a] =>
          /\ {pk \in DOMAIN fkMerged[j].after : InView(pk, a)} =
                 {keyed(a, k) : k \in {x \in DbKeys :
                                          PutSince(fkMerged[j].latest, a, x) # << >>}}
          /\ \A k \in DbKeys :
                Snapshot_get(fkMerged[j].after, keyed(a, k))
                    = PutSince(fkMerged[j].latest, a, k)

\* A Fork merged with a cleared view that held an entry before and gets one
\* Put after the clear, a stored entry of the view being gone; and then a
\* cleared view with a Put after the clear over a Snapshot that still holds
\* another entry of the view
C11_Witness ==
    /\ fkMerged # << >>
    /\ fkMerged[1].cleared[AddrA]
    /\ \E pk \in DOMAIN fkMerged[1].before :
          InView(pk, AddrA) /\ pk \notin DOMAIN fkMerged[1].after
    /\ \E pk \in DOMAIN fkMerged[1].after : InView(pk, AddrA)
    /\ fkCleared[AddrB]
    /\ Snapshot_contains(fkFork.snapshot, keyed(AddrB, <<1>>))
    /\ ~contains_raw_key(fkFork, AddrB, <<1>>)
    /\ View_iter(fkFork, AddrB, << >>) = <<<<(<<2>>), (<<1>>)>>>>

\* The effective map of a Fork view: the snapshot entry overridden by a
\* pending Put, absent with a pending Delete or in a cleared view
FkEffective(a, k) ==
    IF fkLatest[a][k] # << >> THEN PutSince(fkLatest, a, k)
    ELSE IF fkCleared[a] THEN << >>
    ELSE Snapshot_get(fkFork.snapshot, keyed(a, k))

\* The keys an iteration is started from: below, at, between and above the
\* keys of the model
IterFroms == {<< >>, <<1>>, <<1, 5>>, <<2>>, <<3>>}

\* The pairs of the effective map with a key not below `from`, ascending
EffectiveFrom(a, from) ==
    LET sorted == SortKeys({k \in DbKeys : FkEffective(a, k) # << >>
                                             /\ ~LexLess(k, from)})
    IN  [i \in 1..Len(sorted) |-> <<sorted[i], FkEffective(a, sorted[i])[1]>>]

\* C12: iterating a Fork from key `from` yields, once each and in strictly
\* ascending byte order of keys, exactly the pairs of the effective map with
\* a key not below `from`; a Delete of a key the snapshot does not hold
\* changes nothing
C12_ForkIteration ==
    \A a \in DbAddrs, from \in IterFroms :
        LET it == View_iter_from(fkFork, a, << >>, from)
        IN  /\ it = EffectiveFrom(a, from)
            /\ \A i \in 1..(Len(it) - 1) : LexLess(it[i][1], it[i + 1][1])
            /\ \A i \in 1..Len(it) : ~LexLess(it[i][1], from)

\* A Fork with a view over two stored entries and a pending Put over the
\* first, iterated from the start and from between the keys, and a view over
\* one stored entry with a pending Delete of a key the snapshot does not hold
C12_Witness ==
    /\ Snapshot_contains(fkFork.snapshot, keyed(AddrA, <<1>>))
    /\ Snapshot_contains(fkFork.snapshot, keyed(AddrA, <<2>>))
    /\ fkLatest[AddrA][<<1>>] # << >> /\ IsPut(fkLatest[AddrA][<<1>>][1])
    /\ fkLatest[AddrA][<<2>>] = << >> /\ ~fkCleared[AddrA]
    /\ Len(View_iter_from(fkFork, AddrA, << >>, << >>)) = 2
    /\ Len(View_iter_from(fkFork, AddrA, << >>, <<1, 5>>)) = 1
    /\ View_iter_from(fkFork, AddrA, << >>, << >>)[1][2]
           # Snapshot_get(fkFork.snapshot, keyed(AddrA, <<1>>))[1]
    /\ fkLatest[AddrB][<<2>>] = <<Delete>>
    /\ ~Snapshot_contains(fkFork.snapshot, keyed(AddrB, <<2>>))
    /\ ~fkCleared[AddrB]
    /\ View_iter_from(fkFork, AddrB, << >>, << >>) = <<<<(<<1>>), (<<2>>)>>>>

(***************************************************************************)
(* Properties of SpecMeta                                                   *)
(***************************************************************************)
\* C8 as stated: once a kind is recorded for a name, an open of that name,
\* plain or as any family member, in the same fork or after merge, with a
\* different kind panics, and an open with the recorded kind succeeds
C8_AsStated ==
    \A j \in DOMAIN mtLast :
        LET o == mtLast[j]
        IN  o.recorded # << >> =>
                o.panic = (o.index_type # o.recorded[1].index_type)

\* C8: once a kind is recorded for a name, an open of that name, plain or
\* as any family member, in the same fork or after merge, with a different
\* kind panics; an open with the recorded kind succeeds when it is a family
\* member exactly if the record was made by a family member
C8_MetadataGuard ==
    \A j \in DOMAIN mtLast :
        LET o == mtLast[j]
            asRecorded == (o.address.bytes # << >>) = o.recorded[1].has_parent
        IN  o.recorded # << >> =>
                /\ o.index_type # o.recorded[1].index_type => o.panic
                /\ (o.index_type = o.recorded[1].index_type /\ asRecorded)
                       => ~o.panic

\* After a merge, a family member opened on a Snapshot with a kind different
\* from the one another member of the family recorded: a panic
C8_Witness ==
    \E j \in DOMAIN mtLast :
        LET o == mtLast[j]
        IN  /\ ~o.fork
            /\ o.recorded # << >>
            /\ o.recorded[1].has_parent
            /\ o.address.bytes # << >>
            /\ o.index_type # o.recorded[1].index_type
            /\ o.panic
            /\ mtFork.changes[IndexMetadataAddress(o.address)].data = EmptyMap

\* The database of SpecMeta read through a Snapshot taken now
MtSnapshot == SnapshotAccess(RocksDB_snapshot(mtDb), mtDb)

\* The record of a name as an access reads it
RecordOf(access, address) == index_metadata(access, IndexMetadataAddress(address))

\* C21: an index opened on a Fork while its metadata record is absent has
\* the record (kind, has_parent) written in the Fork, and the next merge
\* stores it in the database; an index opened on a Snapshot writes nothing
\* and does not fail when the record is absent
C21_MetadataCreated ==
    /\ \A j \in DOMAIN mtLast :
          LET o == mtLast[j]
          IN  (o.fork /\ o.recorded = << >>) =>
                  /\ ~o.panic
                  /\ RecordOf(mtFork, o.address) =
                         <<IndexMetadata(o.index_type, o.address.bytes # << >>)>>
    /\ \A a \in MetaAddrs :
          /\ RecordOf(mtFork, a) = mtRecFork[a.name]
          /\ RecordOf(MtSnapshot, a) = mtRecDb[a.name]
          /\ \A t \in MetaTypes :
                LET r == IndexBuilder_build(MtSnapshot, a, t)
                IN  /\ r.acc = MtSnapshot
                    /\ mtRecDb[a.name] = << >> => ~r.panic

\* A record written by an open on the Fork has been merged, and an index of
\* another name, with no record, has just been opened on a Snapshot
C21_Witness ==
    /\ \E a \in MetaAddrs :
          /\ mtRecDb[a.name] # << >>
          /\ RecordOf(MtSnapshot, a) = mtRecDb[a.name]
    /\ \E j \in DOMAIN mtLast :
          /\ ~mtLast[j].fork
          /\ mtLast[j].recorded = << >>
          /\ ~mtLast[j].panic
          /\ RecordOf(MtSnapshot, mtLast[j].address) = << >>

\* C22: an open of a name as a family member after it was recorded as a
\* plain index, or as a plain index after it was recorded as a family,
\* panics, also with the recorded kind
C22_FamilyMismatch ==
    \A j \in DOMAIN mtLast :
        LET o == mtLast[j]
        IN  (o.recorded # << >>
                /\ o.recorded[1].has_parent # (o.address.bytes # << >>))
            => o.panic

\* A name recorded as a plain index and merged, then opened as a family
\* member with the recorded kind: a panic
C22_Witness ==
    \E j \in DOMAIN mtLast :
        LET o == mtLast[j]
        IN  /\ o.recorded # << >>
            /\ ~o.recorded[1].has_parent
            /\ o.address.bytes # << >>
            /\ o.index_type = o.recorded[1].index_type
            /\ o.panic
            /\ mtRecDb[o.address.name] = o.recorded

\* C23: clear() on the view of an index leaves the metadata record of the
\* index as it is: after the clear, and after the merge of it, the record
\* read is the one recorded, an open with the recorded kind succeeds and an
\* open with another kind panics
C23_ClearKeepsMetadata ==
    \A a \in mtCleared :
        /\ mtRecFork[a.name] # << >>
        /\ RecordOf(mtFork, a) = mtRecFork[a.name]
        /\ mtRecDb[a.name] # << >> => RecordOf(MtSnapshot, a) = mtRecDb[a.name]
        /\ \A t \in MetaTypes :
              /\ IndexBuilder_build(mtFork, a, t).panic
                     = (t # mtRecFork[a.name][1].index_type)
              /\ mtRecDb[a.name] # << >> =>
                     IndexBuilder_build(MtSnapshot, a, t).panic
                         = (t # mtRecDb[a.name][1].index_type)

\* An index was cleared and the clear merged, and the index has just been
\* opened again with another kind: a panic
C23_Witness ==
    \E j \in DOMAIN mtLast :
        LET o == mtLast[j]
        IN  /\ o.address \in mtCleared
            /\ ~o.cleared
            /\ ~mtFork.changes[o.address].emptied
            /\ mtRecDb[o.address.name] # << >>
            /\ o.index_type # o.recorded[1].index_type
            /\ o.panic

=============================================================================
